---- MODULE Spec2Model ----
(***************************************************************************)
(* Recording lifecycle of webradio9: the Schedule Coordinator              *)
(* (services/scheduler/service.py), the Capture Worker                     *)
(* (services/recording/service.py), the message bus (shared/events.py),    *)
(* the Job Store (shared/models.py) and the two entry points of the web    *)
(* application that feed them (services/web/app.py: create_recording and   *)
(* the consumer of recording.completed).                                   *)
(*                                                                         *)
(* Times are seconds.  The clock moves along TimeLine, a sample of         *)
(* instants placed around the windows of the requests of Requests.         *)
(***************************************************************************)
EXTENDS Integers, Sequences, FiniteSets, TLC

\* ------------------------------------------------------------------ bounds
MaxJobs == 3          \* rows the Job Store may hold
MaxTick == 3          \* index of the last instant of TimeLine the clock reaches
MaxRestarts == 1      \* Coordinator restarts
MaxWorkerCrashes == 1 \* Capture Worker crashes
MaxThreads == 2       \* capture threads one worker instance may have alive
FileBytes == 1024     \* size of the file a capture writes

\* ------------------------------------------------------- program constants
ProbeAttempts == 10        \* check_recording_service_ready(max_attempts=10)
PublishAttempts == 3       \* for attempt in range(3)
GraceSeconds == 5          \* now - timedelta(seconds=5)
LookbackSeconds == 1800    \* now - timedelta(minutes=30)
HorizonSeconds == 172800   \* now + timedelta(hours=48)
SweepInterval == 1800      \* recurring_check_interval
DaySeconds == 86400        \* timedelta(days=1)
WeekSeconds == 604800      \* timedelta(weeks=1)

TimeLine == <<0, 10, 20, 30, 2000, 4000, 6000>>

JobIds == 1..MaxJobs
ThreadIds == 1..MaxThreads
NoRow == [status |-> "none"]
Terminal == {"COMPLETE", "PARTIAL", "FAILED"}

VARIABLES
    tick,       \* index into TimeLine: the wall clock
    db,         \* recordings table: JobIds -> row or NoRow
    episodes,   \* podcast_episodes table: sequence of recording ids
    disk,       \* recordings folder: output path -> size in bytes (0: no file)
    schedQ,     \* scheduler_queue (durable): recording.schedule / recording.cancel
    startQ,     \* the worker's exclusive queue bound to recording.start
    completedQ, \* the web application's exclusive queue bound to recording.completed
    coord,      \* Schedule Coordinator process
    worker,     \* Capture Worker control thread and active_recordings
    threads,    \* record_stream threads of the worker instance
    web,        \* one web request / one consumer callback in progress
    hist        \* observations: restarts, crashes, publications

vars == <<tick, db, episodes, disk, schedQ, startQ, completedQ, coord, worker,
          threads, web, hist>>

now == TimeLine[tick + 1]

\* ------------------------------------------------------------- data model
\* shared/models.py: the stations and podcasts tables hold these rows throughout.
ValidStations == {1}
PodcastIds == {1}

\* A row of the recordings table with the column defaults of Recording.
NewRecording(name, station_id, podcast_id, start_time, duration, is_recurring, recurrence_type, recurrence_end) ==
    [name |-> name, station_id |-> station_id, podcast_id |-> podcast_id,
     start_time |-> start_time, end_time |-> start_time + duration,
     duration |-> duration, status |-> "SCHEDULED", file_path |-> "",
     file_size |-> 0, is_recurring |-> is_recurring,
     recurrence_type |-> recurrence_type, recurrence_end |-> recurrence_end,
     was_interrupted |-> FALSE]

Exists(j) == db[j] # NoRow
Rows == {j \in JobIds : Exists(j)}
FreeIds == JobIds \ Rows
\* AUTO_INCREMENT primary key: rows are never deleted by these components.
NextId == Cardinality(Rows) + 1

\* The requests the web form sends (podcast_id 0 and recurrence_end 0: not given).
Requests ==
    { [name |-> "A", station_id |-> 1, podcast_id |-> 1, start_time |-> 10,
       duration |-> 20, is_recurring |-> FALSE, recurrence_type |-> "",
       recurrence_end |-> 0],
      [name |-> "A", station_id |-> 1, podcast_id |-> 0, start_time |-> 10,
       duration |-> 20, is_recurring |-> TRUE, recurrence_type |-> "daily",
       recurrence_end |-> 0],
      [name |-> "B", station_id |-> 2, podcast_id |-> 0, start_time |-> 10,
       duration |-> 20, is_recurring |-> FALSE, recurrence_type |-> "",
       recurrence_end |-> 0] }

Paths == {r.name : r \in Requests}
RecurrenceTypes == {"daily", "weekdays", "weekends", "weekly", "monthly"}

\* ------------------------------------------------------------- recurrence
\* datetime.weekday() of an instant, Monday = 0; instant 0 is a Monday 00:00:00.
Weekday(t) == (t \div DaySeconds) % 7

RECURSIVE SkipWhile(_, _)
\* while <weekday in skip>: next_time += timedelta(days=1)
SkipWhile(t, skip) ==
    IF Weekday(t) \in skip THEN SkipWhile(t + DaySeconds, skip) ELSE t

\* The proleptic Gregorian calendar of datetime.  Instants are naive datetimes in
\* seconds from Monday 2024-01-01 00:00:00.
Years == 2024..2029
IsLeap(y) == (y % 4 = 0 /\ y % 100 # 0) \/ y % 400 = 0
DaysInYear(y) == IF IsLeap(y) THEN 366 ELSE 365
DaysInMonth(y, m) ==
    CASE m \in {4, 6, 9, 11} -> 30
      [] m = 2 -> IF IsLeap(y) THEN 29 ELSE 28
      [] OTHER -> 31

RECURSIVE DaysBeforeYear(_)
DaysBeforeYear(y) == IF y = 2024 THEN 0 ELSE DaysBeforeYear(y - 1) + DaysInYear(y - 1)

RECURSIVE DaysBeforeMonth(_, _)
DaysBeforeMonth(y, m) ==
    IF m = 1 THEN 0 ELSE DaysBeforeMonth(y, m - 1) + DaysInMonth(y, m - 1)

\* datetime(y, m, d) + seconds
At(y, m, d, seconds) ==
    (DaysBeforeYear(y) + DaysBeforeMonth(y, m) + d - 1) * DaySeconds + seconds

\* datetime.year, .month, .day and the time of day of an instant.
YearOf(t) ==
    CHOOSE y \in Years : /\ DaysBeforeYear(y) <= t \div DaySeconds
                         /\ t \div DaySeconds < DaysBeforeYear(y) + DaysInYear(y)
MonthOf(t) ==
    LET y == YearOf(t)
        n == t \div DaySeconds - DaysBeforeYear(y)
    IN  CHOOSE m \in 1..12 : /\ DaysBeforeMonth(y, m) <= n
                             /\ n < DaysBeforeMonth(y, m) + DaysInMonth(y, m)
DayOf(t) ==
    t \div DaySeconds - DaysBeforeYear(YearOf(t))
        - DaysBeforeMonth(YearOf(t), MonthOf(t)) + 1
TimeOfDay(t) == t % DaySeconds

\* current_time + relativedelta(months=1): the month is advanced and the day is
\* clipped to the length of the new month.
relativedelta_months_1(t) ==
    LET y == IF MonthOf(t) = 12 THEN YearOf(t) + 1 ELSE YearOf(t)
        m == IF MonthOf(t) = 12 THEN 1 ELSE MonthOf(t) + 1
        d == IF DayOf(t) > DaysInMonth(y, m) THEN DaysInMonth(y, m) ELSE DayOf(t)
    IN  At(y, m, d, TimeOfDay(t))

\* A weekly step of six days.
calculate_next_recurrence_short_week(current_time, recurrence_type) ==
    CASE recurrence_type = "daily" -> current_time + DaySeconds
      [] recurrence_type = "weekdays" -> SkipWhile(current_time + DaySeconds, {5, 6})
      [] recurrence_type = "weekends" -> SkipWhile(current_time + DaySeconds, 0..4)
      [] recurrence_type = "weekly" -> current_time + 6 * DaySeconds
      [] recurrence_type = "monthly" -> relativedelta_months_1(current_time)
      [] OTHER -> -1

\* A weekends rule that takes Friday for a weekend day.
calculate_next_recurrence_friday(current_time, recurrence_type) ==
    CASE recurrence_type = "daily" -> current_time + DaySeconds
      [] recurrence_type = "weekdays" -> SkipWhile(current_time + DaySeconds, {5, 6})
      [] recurrence_type = "weekends" -> SkipWhile(current_time + DaySeconds, 0..3)
      [] recurrence_type = "weekly" -> current_time + WeekSeconds
      [] recurrence_type = "monthly" -> relativedelta_months_1(current_time)
      [] OTHER -> -1

\* Months taken as 30 days.
calculate_next_recurrence_30_days(current_time, recurrence_type) ==
    CASE recurrence_type = "daily" -> current_time + DaySeconds
      [] recurrence_type = "weekdays" -> SkipWhile(current_time + DaySeconds, {5, 6})
      [] recurrence_type = "weekends" -> SkipWhile(current_time + DaySeconds, 0..4)
      [] recurrence_type = "weekly" -> current_time + WeekSeconds
      [] recurrence_type = "monthly" -> current_time + 30 * DaySeconds
      [] OTHER -> -1

\* calculate_next_recurrence of the scheduler and of the web application; -1 stands
\* for the ValueError of an unknown type.
calculate_next_recurrence(current_time, recurrence_type) ==
    CASE recurrence_type = "daily" -> current_time + DaySeconds
      [] recurrence_type = "weekdays" -> SkipWhile(current_time + DaySeconds, {5, 6})
      [] recurrence_type = "weekends" -> SkipWhile(current_time + DaySeconds, 0..4)
      [] recurrence_type = "weekly" -> current_time + WeekSeconds
      [] recurrence_type = "monthly" -> relativedelta_months_1(current_time)
      [] OTHER -> -1

RECURSIVE Successive(_, _, _)
\* n successive occurrences from t.
Successive(n, t, recurrence_type) ==
    IF n = 0 THEN t
    ELSE Successive(n - 1, calculate_next_recurrence(t, recurrence_type), recurrence_type)

\* recording/service.py imports only `datetime` from datetime (line 5): every
\* use of timedelta in that module raises NameError.
WorkerHasTimedelta == FALSE

\* Instances of a series: same name and station, is_recurring = False.
Instances(name, station_id) ==
    {j \in Rows : /\ db[j].name = name
                  /\ db[j].station_id = station_id
                  /\ ~db[j].is_recurring}

\* ------------------------------------------------------------ initial state
FreeThread == [pc |-> "free", rid |-> 0, end_time |-> 0, was_interrupted |-> FALSE,
               status |-> "", path |-> "", returncode |-> -1,
               published |-> FALSE, resumed |-> FALSE]

\* SchedulerService.__init__: no timers, then check_active_recordings.  log is
\* the outcome the last start_recording call logged; resumed tells that the call
\* under way was made by check_active_recordings for a row found RECORDING
\* (lines 113-120), and is carried by the recording.start event it publishes and
\* by the capture thread launched for that event.
NewCoordinator ==
    [pc |-> "reconcile", rid |-> 0, att |-> 0, ret |-> "", pub |-> FALSE, log |-> "",
     resumed |-> FALSE, todo |-> <<>>, intr |-> <<>>, expired |-> FALSE,
     pend |-> <<>>, start_timer |-> [j \in JobIds |-> -1],
     stop_timer |-> [j \in JobIds |-> -1], last_recurring_check |-> -1]

\* RecordingService.__init__: active_recordings = {}.  log is the outcome the
\* last handle_recording_start call logged.
NewWorker == [up |-> TRUE, pc |-> "idle", rid |-> 0, active_recordings |-> {},
              log |-> ""]

IdleWeb == [pc |-> "idle", rid |-> 0, next_time |-> 0, cpc |-> "idle", crid |-> 0]

\* The Job Store and scheduler_queue as the web application left them before the
\* Coordinator was constructed.
Job(name, station_id, podcast_id) ==
    NewRecording(name, station_id, podcast_id, 10, 20, FALSE, "", 0)
Template(name, station_id, recurrence_end) ==
    NewRecording(name, station_id, 0, 10, 20, TRUE, "daily", recurrence_end)

Store(rows) == [j \in JobIds |-> IF j <= Len(rows) THEN rows[j] ELSE NoRow]

ScheduleMessage(j, row) ==
    [key |-> "recording.schedule", recording_id |-> j,
     start_time |-> row.start_time, end_time |-> row.end_time]

Scheduled(rows) == [j \in 1..Len(rows) |-> ScheduleMessage(j, rows[j])]

\* One job attached to a podcast; one job on a station that is not valid; one
\* recurrence template with no recurrence_end.
LifecycleStores ==
    { <<Job("A", 1, 1)>>,
      <<Job("B", 2, 0)>>,
      <<Template("A", 1, 0)>> }

\* Two jobs of one name and station with the same window.
OverlapStores == { <<Job("A", 1, 0), Job("A", 1, 0)>> }

InitWith(stores) ==
    /\ tick = 0
    /\ \E rows \in stores : db = Store(rows) /\ schedQ = Scheduled(rows)
    /\ episodes = [j \in JobIds |-> 0]
    /\ disk = [p \in Paths |-> 0]
    /\ startQ = <<>>
    /\ completedQ = <<>>
    /\ coord = NewCoordinator
    /\ worker = NewWorker
    /\ threads = [t \in ThreadIds |-> FreeThread]
    /\ web = IdleWeb
    /\ hist = [restarts |-> 0, crashes |-> 0]

Init == InitWith(LifecycleStores)

\* ------------------------------------------------------------------- clock
Tick ==
    /\ tick < MaxTick
    /\ tick' = tick + 1
    /\ UNCHANGED <<db, episodes, disk, schedQ, startQ, completedQ, coord, worker,
                   threads, web, hist>>

\* ------------------------------------------------------- web: create_recording
\* POST /api/recordings, lines 302-350: the row is added and committed.
create_recording ==
    /\ web.pc = "idle"
    /\ FreeIds # {}
    /\ \E r \in Requests :
          /\ db' = [db EXCEPT ![NextId] =
                       NewRecording(r.name, r.station_id, r.podcast_id, r.start_time,
                                    r.duration, r.is_recurring, r.recurrence_type,
                                    r.recurrence_end)]
          /\ web' = [web EXCEPT !.pc = IF r.is_recurring THEN "next_check" ELSE "publish",
                                !.rid = NextId]
    /\ UNCHANGED <<tick, episodes, disk, schedQ, startQ, completedQ, coord, worker,
                   threads, hist>>

\* schedule_next_recurring_instance, lines 256-280: the existence query, the next
\* occurrence and the recurrence_end test.
schedule_next_recurring_instance_check ==
    /\ web.pc = "next_check"
    /\ LET base == db[web.rid]
           existing_next == \E k \in Instances(base.name, base.station_id) :
                                db[k].start_time > base.start_time
           next_time == calculate_next_recurrence(base.start_time, base.recurrence_type)
       IN  IF \/ existing_next
              \/ next_time = -1
              \/ (base.recurrence_end # 0 /\ next_time > base.recurrence_end)
           THEN web' = [web EXCEPT !.pc = "publish"]
           ELSE web' = [web EXCEPT !.pc = "next_insert", !.next_time = next_time]
    /\ UNCHANGED <<tick, db, episodes, disk, schedQ, startQ, completedQ, coord, worker,
                   threads, hist>>

\* schedule_next_recurring_instance, lines 282-299: the instance is added and committed.
schedule_next_recurring_instance_insert ==
    /\ web.pc = "next_insert"
    /\ FreeIds # {}
    /\ LET base == db[web.rid]
       IN  db' = [db EXCEPT ![NextId] =
                     NewRecording(base.name, base.station_id, base.podcast_id,
                                  web.next_time, base.duration, FALSE, "", 0)]
    /\ web' = [web EXCEPT !.pc = "publish"]
    /\ UNCHANGED <<tick, episodes, disk, schedQ, startQ, completedQ, coord, worker,
                   threads, hist>>

\* create_recording, lines 355-369: recording.schedule is published for the created
\* row; a failing publish ends the request with a 500 and the row stays.
create_recording_publish ==
    /\ web.pc = "publish"
    /\ \E ok \in BOOLEAN :
          schedQ' = IF ok
                    THEN Append(schedQ, [key |-> "recording.schedule",
                                         recording_id |-> web.rid,
                                         start_time |-> db[web.rid].start_time,
                                         end_time |-> db[web.rid].end_time])
                    ELSE schedQ
    /\ web' = [web EXCEPT !.pc = "idle", !.rid = 0, !.next_time = 0]
    /\ UNCHANGED <<tick, db, episodes, disk, startQ, completedQ, coord, worker,
                   threads, hist>>

\* Ids of the rows the Coordinator is working on or holds in a loaded result.
InHand(c) ==
    {c.rid} \cup {c.todo[i].id : i \in 1..Len(c.todo)}
            \cup {c.intr[i].id : i \in 1..Len(c.intr)}

\* delete_recording, lines 671-719: recording.cancel is published for a SCHEDULED
\* row (a failing publish is logged), then the row's episodes, its file and the row
\* are deleted and committed.  The request is taken to arrive while no capture of
\* the job runs and the Coordinator is not inside a call for it.
delete_recording ==
    /\ web.pc = "idle"
    /\ \E recording_id \in Rows :
          LET recording == db[recording_id]
          IN  /\ \A t \in ThreadIds : threads[t].rid # recording_id
              /\ worker.rid # recording_id
              /\ recording_id \notin InHand(coord)
              /\ \E ok \in BOOLEAN :
                    schedQ' = IF recording.status = "SCHEDULED" /\ ok
                              THEN Append(schedQ, [key |-> "recording.cancel",
                                                   recording_id |-> recording_id])
                              ELSE schedQ
              /\ episodes' = [episodes EXCEPT ![recording_id] = 0]
              /\ disk' = IF recording.file_path # ""
                         THEN [disk EXCEPT ![recording.file_path] = 0]
                         ELSE disk
              /\ db' = [db EXCEPT ![recording_id] = NoRow]
    /\ UNCHANGED <<tick, startQ, completedQ, coord, worker, threads, web, hist>>

\* ------------------------------------------------------ Schedule Coordinator
RECURSIVE Ascending(_)
\* The rows of a query result, in primary-key order.
Ascending(S) ==
    IF S = {} THEN <<>>
    ELSE LET m == CHOOSE x \in S : \A y \in S : x <= y
         IN  <<m>> \o Ascending(S \ {m})

\* The rows as the session loaded them: [id, row].
Loaded(S) == [i \in 1..Cardinality(S) |->
                 [id |-> Ascending(S)[i], row |-> db[Ascending(S)[i]]]]

\* run(), line 387: current_time - last_recurring_check > recurring_check_interval
\* (last_recurring_check starts at 0, the epoch: -1 here).
SweepDue(c) ==
    \/ c.last_recurring_check = -1
    \/ now - c.last_recurring_check > SweepInterval

\* The statement the Coordinator executes next when start_recording returns or a
\* loop body ends: the rest of check_active_recordings (lines 112-134), the rest
\* of check_recordings_to_start (436-438), then run()'s loop (376-392).
Resume(c) ==
    LET d == [c EXCEPT !.rid = 0, !.att = 0, !.resumed = FALSE]
    IN  CASE c.ret = "reconcile" ->
               [d EXCEPT !.pc = IF c.todo # <<>> THEN "rec_active"
                                ELSE IF c.intr # <<>> THEN "rec_interrupted"
                                ELSE "poll_events",
                         !.ret = IF c.todo # <<>> \/ c.intr # <<>> THEN "reconcile" ELSE "",
                         !.expired = c.expired /\ (c.todo # <<>> \/ c.intr # <<>>)]
          [] c.ret = "schedule" -> [d EXCEPT !.pc = "poll_due", !.ret = ""]
          [] c.ret = "due" ->
               [d EXCEPT !.pc = IF c.todo # <<>> THEN "due_loop"
                                ELSE IF SweepDue(c) THEN "sweep_query"
                                ELSE "poll_events",
                         !.ret = IF c.todo # <<>> THEN "due" ELSE ""]
          [] OTHER -> [d EXCEPT !.pc = "poll_events", !.ret = ""]

\* check_active_recordings, lines 93-109: the two queries, at one `now`.
check_active_recordings ==
    /\ coord.pc = "reconcile"
    /\ LET active_recordings ==
               {j \in Rows : /\ db[j].start_time <= now
                             /\ db[j].end_time > now
                             /\ db[j].status \in {"SCHEDULED", "RECORDING"}}
           recent_cutoff == now - LookbackSeconds
           interrupted_recordings ==
               {j \in Rows : /\ db[j].status = "RECORDING"
                             /\ db[j].end_time <= now
                             /\ db[j].end_time >= recent_cutoff}
       IN  coord' = Resume([coord EXCEPT !.todo = Loaded(active_recordings),
                                         !.intr = Loaded(interrupted_recordings),
                                         !.expired = FALSE,
                                         !.ret = "reconcile"])
    /\ UNCHANGED <<tick, db, episodes, disk, schedQ, startQ, completedQ, worker,
                   threads, web, hist>>

\* A row's attributes as the reconcile session sees them: as loaded by the query
\* until the session commits, which expires them (expire_on_commit), then re-read.
Seen(r) == IF coord.expired THEN db[r.id] ELSE r.row

\* The first loop without lines 116-117.
check_active_recordings_active_unmarked ==
    /\ coord.pc = "rec_active"
    /\ LET r == Head(coord.todo)
           interrupted == Seen(r).status = "RECORDING"
       IN  coord' = [coord EXCEPT !.pc = "start_read", !.rid = r.id,
                                  !.todo = Tail(coord.todo),
                                  !.resumed = interrupted]
    /\ UNCHANGED <<tick, db, episodes, disk, schedQ, startQ, completedQ, worker,
                   threads, web, hist>>

\* check_active_recordings, lines 112-120: one row of active_recordings; then
\* start_recording(recording.id) is called.
check_active_recordings_active ==
    /\ coord.pc = "rec_active"
    /\ LET r == Head(coord.todo)
           interrupted == Seen(r).status = "RECORDING"
       IN  /\ db' = IF interrupted
                    THEN [db EXCEPT ![r.id].was_interrupted = TRUE]
                    ELSE db
           /\ coord' = [coord EXCEPT !.pc = "start_read", !.rid = r.id,
                                     !.todo = Tail(coord.todo),
                                     !.expired = coord.expired \/ interrupted,
                                     !.resumed = interrupted]
    /\ UNCHANGED <<tick, episodes, disk, schedQ, startQ, completedQ, worker,
                   threads, web, hist>>

\* The second loop without line 125.
check_active_recordings_interrupted_unmarked ==
    /\ coord.pc = "rec_interrupted"
    /\ LET r == Head(coord.intr)
           file_path == Seen(r).file_path
           present == file_path # "" /\ disk[file_path] > 0
       IN  /\ db' = [db EXCEPT ![r.id].status = IF present THEN "PARTIAL" ELSE "FAILED",
                               ![r.id].file_size = IF present THEN disk[file_path] ELSE @]
           /\ coord' = Resume([coord EXCEPT !.intr = Tail(coord.intr),
                                            !.expired = TRUE])
    /\ UNCHANGED <<tick, episodes, disk, schedQ, startQ, completedQ, worker,
                   threads, web, hist>>

\* check_active_recordings, lines 123-134: one row of interrupted_recordings.
check_active_recordings_interrupted ==
    /\ coord.pc = "rec_interrupted"
    /\ LET r == Head(coord.intr)
           file_path == Seen(r).file_path
           present == file_path # "" /\ disk[file_path] > 0
       IN  /\ db' = [db EXCEPT ![r.id].was_interrupted = TRUE,
                               ![r.id].status = IF present THEN "PARTIAL" ELSE "FAILED",
                               ![r.id].file_size = IF present THEN disk[file_path] ELSE @]
           /\ coord' = Resume([coord EXCEPT !.intr = Tail(coord.intr),
                                            !.expired = TRUE])
    /\ UNCHANGED <<tick, episodes, disk, schedQ, startQ, completedQ, worker,
                   threads, web, hist>>

\* A cancel that removes the start timer only.
handle_recording_cancel_start_only(c, recording_id) ==
    IF c.start_timer[recording_id] # -1
    THEN [c EXCEPT !.pc = "poll_due", !.start_timer[recording_id] = -1,
                   !.log = "cancelled"]
    ELSE [c EXCEPT !.pc = "poll_due"]

\* handle_recording_cancel, lines 180-194: remove_job raises JobLookupError for an
\* id that is not armed, and the bare except of line 190 ends the handler, so the
\* stop timer is removed only after the start timer was found and removed.
handle_recording_cancel(c, recording_id) ==
    IF c.start_timer[recording_id] # -1
    THEN IF c.stop_timer[recording_id] # -1
         THEN [c EXCEPT !.pc = "poll_due", !.start_timer[recording_id] = -1,
                        !.stop_timer[recording_id] = -1, !.log = "cancelled"]
         ELSE [c EXCEPT !.pc = "poll_due", !.start_timer[recording_id] = -1]
    ELSE [c EXCEPT !.pc = "poll_due"]

\* An add_job that keeps the timer already armed under the id.
add_job_keep_existing(timer, run_date) == IF timer # -1 THEN timer ELSE run_date

\* scheduler.add_job(..., id=..., replace_existing=True), lines 157-163 and
\* 168-174: the job store holds one job per id, and the new job takes the place of
\* the one stored under the id.
add_job(timer, run_date) == run_date

\* A basic_get that returns the message published last.
basic_get_newest(queue) ==
    [message |-> queue[Len(queue)], rest |-> SubSeq(queue, 1, Len(queue) - 1)]

\* channel.basic_get(queue='scheduler_queue', auto_ack=True), line 409: the
\* message at the head of the queue, which leaves the queue.
basic_get(queue) == [message |-> Head(queue), rest |-> Tail(queue)]

\* check_for_schedule_events, lines 402-420, when basic_get (auto_ack) returns a
\* message, and handle_recording_schedule, lines 139-178, or
\* handle_recording_cancel for it.
check_for_schedule_events ==
    /\ coord.pc = "poll_events"
    /\ schedQ # <<>>
    /\ LET message == basic_get(schedQ).message
           recording_id == message.recording_id
       IN  /\ schedQ' = basic_get(schedQ).rest
           /\ IF message.key = "recording.cancel"
              THEN coord' = handle_recording_cancel(coord, recording_id)
              ELSE IF message.start_time <= now /\ now <= message.end_time
              THEN coord' = [coord EXCEPT !.pc = "start_read",
                                          !.rid = recording_id,
                                          !.ret = "schedule"]
              ELSE coord' =
                     [coord EXCEPT
                        !.pc = "poll_due",
                        !.start_timer[recording_id] =
                            IF message.start_time > now
                            THEN add_job(@, message.start_time) ELSE @,
                        !.stop_timer[recording_id] =
                            IF message.end_time > now
                            THEN add_job(@, message.end_time) ELSE @,
                        !.log = IF /\ message.start_time > now
                                   /\ coord.start_timer[recording_id] # -1
                                THEN "rearmed" ELSE @]
    /\ UNCHANGED <<tick, db, episodes, disk, startQ, completedQ, worker, threads,
                   web, hist>>

\* check_recordings_to_start, lines 422-434: the query for due rows, after
\* check_for_schedule_events handled a message or found the queue empty.
check_recordings_to_start ==
    /\ \/ coord.pc = "poll_due"
       \/ coord.pc = "poll_events" /\ schedQ = <<>>
    /\ LET recordings_to_start ==
               {j \in Rows : /\ db[j].status = "SCHEDULED"
                             /\ db[j].start_time <= now
                             /\ db[j].start_time >= now - GraceSeconds}
       IN  coord' = Resume([coord EXCEPT !.todo = Loaded(recordings_to_start),
                                         !.ret = "due"])
    /\ UNCHANGED <<tick, db, episodes, disk, schedQ, startQ, completedQ, worker,
                   threads, web, hist>>

\* check_recordings_to_start, lines 436-438: start_recording(recording.id) for
\* the next row of the result.
check_recordings_to_start_loop ==
    /\ coord.pc = "due_loop"
    /\ coord' = [coord EXCEPT !.pc = "start_read", !.rid = Head(coord.todo).id,
                              !.todo = Tail(coord.todo)]
    /\ UNCHANGED <<tick, db, episodes, disk, schedQ, startQ, completedQ, worker,
                   threads, web, hist>>

\* A start_recording that publishes without having committed RECORDING.
start_recording_uncommitted ==
    /\ coord.pc = "start_read"
    /\ coord' = IF Exists(coord.rid) /\ db[coord.rid].status \in {"SCHEDULED", "RECORDING"}
                THEN [coord EXCEPT !.pc = "start_probe", !.att = 0, !.pub = FALSE,
                                   !.log = ""]
                ELSE Resume([coord EXCEPT !.pub = FALSE, !.log = "not_schedulable"])
    /\ UNCHANGED <<tick, db, episodes, disk, schedQ, startQ, completedQ, worker,
                   threads, web, hist>>

\* A start_recording that goes ahead for any row it finds, whatever its status.
start_recording_any_status ==
    /\ coord.pc = "start_read"
    /\ IF Exists(coord.rid)
       THEN /\ db' = [db EXCEPT ![coord.rid].status = "RECORDING"]
            /\ coord' = [coord EXCEPT !.pc = "start_probe", !.att = 0, !.pub = FALSE,
                                      !.log = ""]
       ELSE /\ coord' = Resume([coord EXCEPT !.pub = FALSE, !.log = "not_schedulable"])
            /\ UNCHANGED db
    /\ UNCHANGED <<tick, episodes, disk, schedQ, startQ, completedQ, worker,
                   threads, web, hist>>

\* start_recording, lines 201-211 and 248-249: the row is re-read and, when
\* SCHEDULED or RECORDING, RECORDING is committed.
start_recording ==
    /\ coord.pc = "start_read"
    /\ IF Exists(coord.rid) /\ db[coord.rid].status \in {"SCHEDULED", "RECORDING"}
       THEN /\ db' = [db EXCEPT ![coord.rid].status = "RECORDING"]
            /\ coord' = [coord EXCEPT !.pc = "start_probe", !.att = 0, !.pub = FALSE,
                                      !.log = ""]
       ELSE /\ coord' = Resume([coord EXCEPT !.pub = FALSE, !.log = "not_schedulable"])
            /\ UNCHANGED db
    /\ UNCHANGED <<tick, episodes, disk, schedQ, startQ, completedQ, worker,
                   threads, web, hist>>

\* The worker's /health answers 'ready' (recording/service.py lines 30-36) while
\* the worker process is up with its bus subscriptions made.
WorkerReady == worker.up

\* A probe that keeps asking until the recording service answers.
check_recording_service_ready_unbounded ==
    /\ coord.pc = "start_probe"
    /\ coord' = IF WorkerReady
                THEN [coord EXCEPT !.pc = "start_event", !.att = 0]
                ELSE [coord EXCEPT !.att = IF @ + 1 < ProbeAttempts THEN @ + 1 ELSE @]
    /\ UNCHANGED <<tick, db, episodes, disk, schedQ, startQ, completedQ, worker,
                   threads, web, hist>>

\* check_recording_service_ready, lines 55-71: one attempt of the loop.
check_recording_service_ready ==
    /\ coord.pc = "start_probe"
    /\ coord' = IF WorkerReady
                THEN [coord EXCEPT !.pc = "start_event", !.att = 0]
                ELSE IF coord.att + 1 < ProbeAttempts
                     THEN [coord EXCEPT !.att = coord.att + 1]
                     ELSE [coord EXCEPT !.pc = "start_not_ready", !.att = 0]
    /\ UNCHANGED <<tick, db, episodes, disk, schedQ, startQ, completedQ, worker,
                   threads, web, hist>>

\* check_recording_service_ready with the time its sleeps take: every failed
\* attempt ends in time.sleep(1) (lines 65 and 68), so when the last attempt has
\* failed at least ProbeAttempts seconds have passed since the probe began.
check_recording_service_ready_sleeping ==
    /\ coord.pc = "start_probe"
    /\ coord' = IF WorkerReady
                THEN [coord EXCEPT !.pc = "start_event", !.att = 0]
                ELSE IF coord.att + 1 < ProbeAttempts
                     THEN [coord EXCEPT !.att = coord.att + 1]
                     ELSE [coord EXCEPT !.pc = "start_not_ready", !.att = 0]
    /\ tick' = IF /\ ~WorkerReady
                  /\ coord.att + 1 >= ProbeAttempts
                  /\ tick < MaxTick
                  /\ TimeLine[tick + 2] - now <= ProbeAttempts
               THEN tick + 1 ELSE tick
    /\ UNCHANGED <<db, episodes, disk, schedQ, startQ, completedQ, worker,
                   threads, web, hist>>

\* run(), line 392: time.sleep(1) at the end of an iteration that found no
\* message and no due row.  The clock moves to the next instant only if the
\* one-second polls in between could not have found a row either.
run_sleep ==
    /\ coord.pc = "poll_events"
    /\ schedQ = <<>>
    /\ tick < MaxTick
    /\ \A j \in Rows :
          db[j].status = "SCHEDULED" =>
              /\ ~(db[j].start_time <= now /\ db[j].start_time >= now - GraceSeconds)
              /\ ~(now < db[j].start_time
                   /\ db[j].start_time + GraceSeconds < TimeLine[tick + 2])
    /\ tick' = tick + 1
    /\ UNCHANGED <<db, episodes, disk, schedQ, startQ, completedQ, coord, worker,
                   threads, web, hist>>

\* A start_recording that returns after a failed probe without committing FAILED.
start_recording_not_ready_unsaved ==
    /\ coord.pc = "start_not_ready"
    /\ coord' = Resume([coord EXCEPT !.log = "not_ready"])
    /\ UNCHANGED <<tick, db, episodes, disk, schedQ, startQ, completedQ, worker,
                   threads, web, hist>>

\* start_recording, lines 215-219: the probe returned False.
start_recording_not_ready ==
    /\ coord.pc = "start_not_ready"
    /\ db' = [db EXCEPT ![coord.rid].status = "FAILED"]
    /\ coord' = Resume([coord EXCEPT !.log = "not_ready"])
    /\ UNCHANGED <<tick, episodes, disk, schedQ, startQ, completedQ, worker,
                   threads, web, hist>>

\* start_recording, lines 222-229: event_data is built from the row, whose
\* attributes the commit of line 210 expired: they are re-read from the Job Store.
start_recording_event ==
    /\ coord.pc = "start_event"
    /\ coord' = [coord EXCEPT !.pc = "start_publish", !.att = 0]
    /\ UNCHANGED <<tick, db, episodes, disk, schedQ, startQ, completedQ, worker,
                   threads, web, hist>>

\* start_recording, lines 251-255: an exception raised after the commit outside
\* the publish loop (the re-read of lines 222-229 failing) is logged, and
\* start_recording returns.
start_recording_raises ==
    /\ coord.pc = "start_event"
    /\ coord' = Resume([coord EXCEPT !.log = "failed"])
    /\ UNCHANGED <<tick, db, episodes, disk, schedQ, startQ, completedQ, worker,
                   threads, web, hist>>

\* EventBus.publish('recording.start', ...): the exchange routes the message to
\* the queue the worker bound in subscribe() (exclusive: it exists while the
\* worker is connected); with no queue bound the message is dropped.
RouteStart(message) == IF worker.up THEN Append(startQ, message) ELSE startQ

\* A publish loop that gives up one attempt early.
start_recording_publish_early ==
    /\ coord.pc = "start_publish"
    /\ \E ok \in BOOLEAN :
          IF ok
          THEN /\ startQ' = RouteStart([recording_id |-> coord.rid,
                                        station_id |-> db[coord.rid].station_id,
                                        name |-> db[coord.rid].name,
                                        end_time |-> db[coord.rid].end_time,
                                        resumed |-> coord.resumed])
               /\ coord' = Resume([coord EXCEPT !.pub = TRUE, !.log = "started"])
               /\ UNCHANGED db
          ELSE IF coord.att >= PublishAttempts - 2
               THEN /\ db' = [db EXCEPT ![coord.rid].status = "FAILED"]
                    /\ coord' = Resume([coord EXCEPT !.log = "publish_failed"])
                    /\ UNCHANGED startQ
               ELSE /\ coord' = [coord EXCEPT !.att = coord.att + 1]
                    /\ UNCHANGED <<db, startQ>>
    /\ UNCHANGED <<tick, episodes, disk, schedQ, completedQ, worker, threads, web,
                   hist>>

\* start_recording, lines 231-247: one attempt of the publish loop.
start_recording_publish ==
    /\ coord.pc = "start_publish"
    /\ \E ok \in BOOLEAN :
          IF ok
          THEN /\ startQ' = RouteStart([recording_id |-> coord.rid,
                                        station_id |-> db[coord.rid].station_id,
                                        name |-> db[coord.rid].name,
                                        end_time |-> db[coord.rid].end_time,
                                        resumed |-> coord.resumed])
               /\ coord' = Resume([coord EXCEPT !.pub = TRUE, !.log = "started"])
               /\ UNCHANGED db
          ELSE IF coord.att = PublishAttempts - 1
               THEN /\ db' = [db EXCEPT ![coord.rid].status = "FAILED"]
                    /\ coord' = Resume([coord EXCEPT !.log = "publish_failed"])
                    /\ UNCHANGED startQ
               ELSE /\ coord' = [coord EXCEPT !.att = coord.att + 1]
                    /\ UNCHANGED <<db, startQ>>
    /\ UNCHANGED <<tick, episodes, disk, schedQ, completedQ, worker, threads, web,
                   hist>>

\* check_missing_recurring_instances, lines 302-305: the templates.
check_missing_recurring_instances ==
    /\ coord.pc = "sweep_query"
    /\ LET recurring_templates == {j \in Rows : db[j].is_recurring}
       IN  coord' = [coord EXCEPT !.pc = IF recurring_templates # {} THEN "sweep_loop"
                                        ELSE "sweep_commit",
                                  !.todo = Loaded(recurring_templates),
                                  !.pend = <<>>]
    /\ UNCHANGED <<tick, db, episodes, disk, schedQ, startQ, completedQ, worker,
                   threads, web, hist>>

\* A sweep without the recurrence_end test of lines 325-327.
check_missing_recurring_instances_template_unbounded ==
    /\ coord.pc = "sweep_loop"
    /\ LET template == Head(coord.todo).row
           series == Instances(template.name, template.station_id)
           base_time == IF series # {}
                        THEN CHOOSE t \in {db[k].start_time : k \in series} :
                                 \A k \in series : db[k].start_time <= t
                        ELSE template.start_time
           next_time == calculate_next_recurrence(base_time, template.recurrence_type)
           check_until == now + HorizonSeconds
           existing == \E k \in series : db[k].start_time = next_time
           skip == \/ next_time = -1
                   \/ next_time > check_until
                   \/ existing
           next_recording == NewRecording(template.name, template.station_id,
                                          template.podcast_id, next_time,
                                          template.duration, FALSE, "", 0)
       IN  coord' = [coord EXCEPT
                        !.todo = Tail(coord.todo),
                        !.pend = IF skip THEN @ ELSE Append(@, next_recording),
                        !.pc = IF Tail(coord.todo) # <<>> THEN "sweep_loop"
                               ELSE "sweep_commit"]
    /\ UNCHANGED <<tick, db, episodes, disk, schedQ, startQ, completedQ, worker,
                   threads, web, hist>>

\* A sweep without the horizon test of lines 329-333.
check_missing_recurring_instances_template_any_distance ==
    /\ coord.pc = "sweep_loop"
    /\ LET template == Head(coord.todo).row
           series == Instances(template.name, template.station_id)
           base_time == IF series # {}
                        THEN CHOOSE t \in {db[k].start_time : k \in series} :
                                 \A k \in series : db[k].start_time <= t
                        ELSE template.start_time
           next_time == calculate_next_recurrence(base_time, template.recurrence_type)
           existing == \E k \in series : db[k].start_time = next_time
           skip == \/ next_time = -1
                   \/ (template.recurrence_end # 0 /\ next_time > template.recurrence_end)
                   \/ existing
           next_recording == NewRecording(template.name, template.station_id,
                                          template.podcast_id, next_time,
                                          template.duration, FALSE, "", 0)
       IN  coord' = [coord EXCEPT
                        !.todo = Tail(coord.todo),
                        !.pend = IF skip THEN @ ELSE Append(@, next_recording),
                        !.pc = IF Tail(coord.todo) # <<>> THEN "sweep_loop"
                               ELSE "sweep_commit"]
    /\ UNCHANGED <<tick, db, episodes, disk, schedQ, startQ, completedQ, worker,
                   threads, web, hist>>

\* check_missing_recurring_instances, lines 307-365: a query of the loop raises
\* (the database connection fails).  Only ValueError is caught inside the loop
\* (lines 321-323), so the handler of line 364 ends the sweep before db.commit();
\* run(), line 389, notes the time of the check all the same.
check_missing_recurring_instances_raises ==
    /\ coord.pc = "sweep_loop"
    /\ coord' = [coord EXCEPT !.pc = "poll_events", !.todo = <<>>, !.pend = <<>>,
                              !.last_recurring_check = now]
    /\ UNCHANGED <<tick, db, episodes, disk, schedQ, startQ, completedQ, worker,
                   threads, web, hist>>

\* check_missing_recurring_instances, lines 307-360: one template.  The session
\* has autoflush off: rows added for earlier templates are not seen by the queries.
check_missing_recurring_instances_template ==
    /\ coord.pc = "sweep_loop"
    /\ LET template == Head(coord.todo).row
           series == Instances(template.name, template.station_id)
           base_time == IF series # {}
                        THEN CHOOSE t \in {db[k].start_time : k \in series} :
                                 \A k \in series : db[k].start_time <= t
                        ELSE template.start_time
           next_time == calculate_next_recurrence(base_time, template.recurrence_type)
           check_until == now + HorizonSeconds
           existing == \E k \in series : db[k].start_time = next_time
           skip == \/ next_time = -1
                   \/ (template.recurrence_end # 0 /\ next_time > template.recurrence_end)
                   \/ next_time > check_until
                   \/ existing
           next_recording == NewRecording(template.name, template.station_id,
                                          template.podcast_id, next_time,
                                          template.duration, FALSE, "", 0)
       IN  coord' = [coord EXCEPT
                        !.todo = Tail(coord.todo),
                        !.pend = IF skip THEN @ ELSE Append(@, next_recording),
                        !.pc = IF Tail(coord.todo) # <<>> THEN "sweep_loop"
                               ELSE "sweep_commit"]
    /\ UNCHANGED <<tick, db, episodes, disk, schedQ, startQ, completedQ, worker,
                   threads, web, hist>>

\* A sweep whose instances copy the template's is_recurring.
check_missing_recurring_instances_commit_copy ==
    /\ coord.pc = "sweep_commit"
    /\ Len(coord.pend) <= Cardinality(FreeIds)
    /\ db' = [j \in JobIds |->
                 IF j \in NextId..(NextId + Len(coord.pend) - 1)
                 THEN [coord.pend[j - NextId + 1] EXCEPT !.is_recurring = TRUE]
                 ELSE db[j]]
    /\ coord' = [coord EXCEPT !.pc = "poll_events", !.pend = <<>>,
                              !.last_recurring_check = now]
    /\ UNCHANGED <<tick, episodes, disk, schedQ, startQ, completedQ, worker,
                   threads, web, hist>>

\* check_missing_recurring_instances, line 362: db.commit() inserts the added
\* rows; run(), line 389, then notes the time of the check.
check_missing_recurring_instances_commit ==
    /\ coord.pc = "sweep_commit"
    /\ Len(coord.pend) <= Cardinality(FreeIds)
    /\ db' = [j \in JobIds |->
                 IF j \in NextId..(NextId + Len(coord.pend) - 1)
                 THEN coord.pend[j - NextId + 1]
                 ELSE db[j]]
    /\ coord' = [coord EXCEPT !.pc = "poll_events", !.pend = <<>>,
                              !.last_recurring_check = now]
    /\ UNCHANGED <<tick, episodes, disk, schedQ, startQ, completedQ, worker,
                   threads, web, hist>>

\* The Coordinator process dies and is started again: __init__ builds a new
\* scheduler (the timers were in memory) and runs check_active_recordings.
coordinator_restart ==
    /\ hist.restarts < MaxRestarts
    /\ coord' = NewCoordinator
    /\ hist' = [hist EXCEPT !.restarts = hist.restarts + 1]
    /\ UNCHANGED <<tick, db, episodes, disk, schedQ, startQ, completedQ, worker,
                   threads, web>>

\* ------------------------------------------------------------ Capture Worker
FreeSlots == {t \in ThreadIds : threads[t].pc = "free"}
FirstFreeSlot == CHOOSE t \in FreeSlots : \A u \in FreeSlots : t <= u

\* A handler without the duplicate test.
NeverActive(recording_id) == FALSE

\* handle_recording_start, lines 62-64: the duplicate test on active_recordings.
AlreadyActive(recording_id) == recording_id \in worker.active_recordings

\* A handler that launches the capture for any row it finds, whatever its status.
handle_recording_start_any_status ==
    /\ worker.up
    /\ worker.pc = "idle"
    /\ startQ # <<>>
    /\ LET message == Head(startQ)
           recording_id == message.recording_id
           ignored == \/ AlreadyActive(recording_id)
                      \/ ~Exists(recording_id)
           invalid_station == message.station_id \notin ValidStations
       IN  /\ startQ' = Tail(startQ)
           /\ IF ignored \/ invalid_station
              THEN /\ worker' = [worker EXCEPT !.log =
                                    IF AlreadyActive(recording_id) THEN "duplicate"
                                    ELSE IF ignored THEN "not_recording"
                                    ELSE "invalid_station"]
                   /\ UNCHANGED threads
              ELSE /\ FreeSlots # {}
                   /\ threads' = [threads EXCEPT ![FirstFreeSlot] =
                                     [pc |-> "start", rid |-> recording_id,
                                      end_time |-> message.end_time,
                                      was_interrupted |-> FALSE, status |-> "",
                                      path |-> message.name, returncode |-> -1,
                                      published |-> FALSE,
                                      resumed |-> message.resumed]]
                   /\ worker' = [worker EXCEPT !.pc = "register",
                                               !.rid = recording_id,
                                               !.log = "thread_started"]
    /\ UNCHANGED <<tick, db, episodes, disk, schedQ, completedQ, coord, web, hist>>

\* handle_recording_start, lines 56-112: the callback for one recording.start
\* message (auto_ack), up to thread.start().
handle_recording_start ==
    /\ worker.up
    /\ worker.pc = "idle"
    /\ startQ # <<>>
    /\ LET message == Head(startQ)
           recording_id == message.recording_id
           ignored == \/ AlreadyActive(recording_id)
                      \/ ~Exists(recording_id)
                      \/ db[recording_id].status # "RECORDING"
           invalid_station == message.station_id \notin ValidStations
       IN  /\ startQ' = Tail(startQ)
           /\ IF ignored \/ invalid_station
              THEN /\ worker' = [worker EXCEPT !.log =
                                    IF AlreadyActive(recording_id) THEN "duplicate"
                                    ELSE IF ignored THEN "not_recording"
                                    ELSE "invalid_station"]
                   /\ UNCHANGED threads
              ELSE /\ FreeSlots # {}
                   /\ threads' = [threads EXCEPT ![FirstFreeSlot] =
                                     [pc |-> "start", rid |-> recording_id,
                                      end_time |-> message.end_time,
                                      was_interrupted |-> FALSE, status |-> "",
                                      path |-> message.name, returncode |-> -1,
                                      published |-> FALSE,
                                      resumed |-> message.resumed]]
                   /\ worker' = [worker EXCEPT !.pc = "register",
                                               !.rid = recording_id,
                                               !.log = "thread_started"]
    /\ UNCHANGED <<tick, db, episodes, disk, schedQ, completedQ, coord, web, hist>>

\* A stop handler that ends the capture of the job: its deadline becomes now and
\* its entry leaves active_recordings.
handle_recording_stop_terminates ==
    /\ worker.up
    /\ worker.pc = "idle"
    /\ \E recording_id \in JobIds :
          IF recording_id \in worker.active_recordings
          THEN /\ worker' = [worker EXCEPT !.log = "stop_signal",
                                           !.active_recordings = @ \ {recording_id}]
               /\ threads' = [t \in ThreadIds |->
                                 IF threads[t].rid = recording_id
                                 THEN [threads[t] EXCEPT !.end_time = now]
                                 ELSE threads[t]]
          ELSE UNCHANGED <<worker, threads>>
    /\ UNCHANGED <<tick, db, episodes, disk, schedQ, startQ, completedQ, coord, web,
                   hist>>

\* handle_recording_stop, lines 128-138: the callback for one recording.stop
\* message (auto_ack) naming any job id: for an id in active_recordings the signal
\* is logged, and nothing else is done.
handle_recording_stop ==
    /\ worker.up
    /\ worker.pc = "idle"
    /\ \E recording_id \in JobIds :
          worker' = IF recording_id \in worker.active_recordings
                    THEN [worker EXCEPT !.log = "stop_signal"]
                    ELSE worker
    /\ UNCHANGED <<tick, db, episodes, disk, schedQ, startQ, completedQ, coord,
                   threads, web, hist>>

\* handle_recording_start, lines 122-126: an exception raised between the station
\* test and thread.start() (the recordings folder, the thread) is logged.
handle_recording_start_raises ==
    /\ worker.up
    /\ worker.pc = "idle"
    /\ startQ # <<>>
    /\ LET message == Head(startQ)
           recording_id == message.recording_id
       IN  /\ ~AlreadyActive(recording_id)
           /\ Exists(recording_id)
           /\ db[recording_id].status = "RECORDING"
           /\ message.station_id \in ValidStations
    /\ startQ' = Tail(startQ)
    /\ worker' = [worker EXCEPT !.log = "failed"]
    /\ UNCHANGED <<tick, db, episodes, disk, schedQ, completedQ, coord, threads, web,
                   hist>>

\* handle_recording_start, lines 114-120: the entry of active_recordings.
handle_recording_start_register ==
    /\ worker.up
    /\ worker.pc = "register"
    /\ worker' = [worker EXCEPT !.pc = "idle", !.rid = 0,
                                !.active_recordings = @ \cup {worker.rid},
                                !.log = "started"]
    /\ UNCHANGED <<tick, db, episodes, disk, schedQ, startQ, completedQ, coord,
                   threads, web, hist>>

\* record_stream, lines 143-150: the row is loaded and the remaining seconds
\* computed; with none left the thread returns.
record_stream(t) ==
    /\ threads[t].pc = "start"
    /\ LET total_seconds == threads[t].end_time - now
       IN  threads' = IF total_seconds <= 0
                      THEN [threads EXCEPT ![t] = FreeThread]
                      ELSE [threads EXCEPT ![t].pc = "ffmpeg",
                                           ![t].was_interrupted =
                                               db[threads[t].rid].was_interrupted]
    /\ UNCHANGED <<tick, db, episodes, disk, schedQ, startQ, completedQ, coord,
                   worker, web, hist>>

\* An outcome that does not look at was_interrupted.
OutcomeUninterrupted(returncode, output_exists, was_interrupted) ==
    IF returncode = 0 /\ output_exists THEN "COMPLETE" ELSE "FAILED"

\* record_stream, lines 177-190: the status from the exit code, the output file
\* and the was_interrupted attribute as the thread's session loaded it.
Outcome(returncode, output_exists, was_interrupted) ==
    IF returncode = 0 /\ output_exists
    THEN IF was_interrupted THEN "PARTIAL" ELSE "COMPLETE"
    ELSE "FAILED"

\* A completion that stores the measured length of the capture as the duration.
record_stream_finalize_measured(t) ==
    /\ threads[t].pc = "ffmpeg"
    /\ \E returncode \in {0, 1}, written \in BOOLEAN :
          /\ returncode = 0 => now >= threads[t].end_time
          /\ LET rid == threads[t].rid
                 output_file == threads[t].path
                 size == IF written THEN FileBytes ELSE disk[output_file]
                 status == Outcome(returncode, size > 0, threads[t].was_interrupted)
             IN  /\ disk' = [disk EXCEPT ![output_file] = size]
                 /\ db' = IF status = "FAILED"
                          THEN [db EXCEPT ![rid].status = status,
                                          ![rid].duration = now - db[rid].start_time]
                          ELSE [db EXCEPT ![rid].status = status,
                                          ![rid].file_path = output_file,
                                          ![rid].file_size = size,
                                          ![rid].duration = now - db[rid].start_time]
                 /\ threads' = [threads EXCEPT ![t].pc = "publish",
                                               ![t].returncode = returncode]
    /\ UNCHANGED <<tick, episodes, schedQ, startQ, completedQ, coord, worker, web,
                   hist>>

\* record_stream, lines 174-200: ffmpeg ends (with exit code 0 only once it has
\* recorded for total_seconds) and the status is committed.
record_stream_finalize(t) ==
    /\ threads[t].pc = "ffmpeg"
    /\ \E returncode \in {0, 1}, written \in BOOLEAN :
          /\ returncode = 0 => now >= threads[t].end_time
          /\ LET rid == threads[t].rid
                 output_file == threads[t].path
                 size == IF written THEN FileBytes ELSE disk[output_file]
                 status == Outcome(returncode, size > 0, threads[t].was_interrupted)
             IN  /\ disk' = [disk EXCEPT ![output_file] = size]
                 /\ db' = IF status = "FAILED"
                          THEN [db EXCEPT ![rid].status = status]
                          ELSE [db EXCEPT ![rid].status = status,
                                          ![rid].file_path = output_file,
                                          ![rid].file_size = size]
                 /\ threads' = [threads EXCEPT ![t].pc = "publish",
                                               ![t].returncode = returncode]
    /\ UNCHANGED <<tick, episodes, schedQ, startQ, completedQ, coord, worker, web,
                   hist>>

\* record_stream, lines 229-243: an exception in the body (subprocess.run cannot
\* start ffmpeg): FAILED is committed, then `total_parts` is an undefined name and
\* the thread dies in its handler.
record_stream_except(t) ==
    /\ threads[t].pc = "ffmpeg"
    /\ db' = [db EXCEPT ![threads[t].rid].status = "FAILED"]
    /\ threads' = [threads EXCEPT ![t] = FreeThread]
    /\ UNCHANGED <<tick, episodes, disk, schedQ, startQ, completedQ, coord, worker,
                   web, hist>>

\* A publish outside the try of lines 203-212: its failure reaches the handler
\* of line 229, which stores FAILED and ends the thread.
record_stream_publish_unguarded(t) ==
    /\ threads[t].pc = "publish"
    /\ LET recording == db[threads[t].rid]
       IN  \E ok \in BOOLEAN :
              IF ok
              THEN /\ completedQ' = Append(completedQ,
                                           [recording_id |-> threads[t].rid,
                                            status |-> recording.status,
                                            file_size |-> recording.file_size,
                                            duration |-> recording.duration])
                   /\ threads' = [threads EXCEPT ![t].pc = "remove",
                                                 ![t].status = recording.status,
                                                 ![t].published = TRUE]
                   /\ UNCHANGED db
              ELSE /\ db' = [db EXCEPT ![threads[t].rid].status = "FAILED"]
                   /\ threads' = [threads EXCEPT ![t] = FreeThread]
                   /\ UNCHANGED completedQ
    /\ UNCHANGED <<tick, episodes, disk, schedQ, startQ, coord, worker, web, hist>>

\* record_stream, lines 203-212: recording.completed carries the attributes
\* re-read after the commit; a failing publish is logged.
record_stream_publish(t) ==
    /\ threads[t].pc = "publish"
    /\ LET recording == db[threads[t].rid]
       IN  /\ \E ok \in BOOLEAN :
                 /\ completedQ' = IF ok
                                  THEN Append(completedQ,
                                              [recording_id |-> threads[t].rid,
                                               status |-> recording.status,
                                               file_size |-> recording.file_size,
                                               duration |-> recording.duration])
                                  ELSE completedQ
                 /\ threads' = [threads EXCEPT ![t].pc = "remove",
                                               ![t].status = recording.status,
                                               ![t].published = ok]
    /\ UNCHANGED <<tick, db, episodes, disk, schedQ, startQ, coord, worker, web,
                   hist>>

\* record_stream, lines 214-219.
record_stream_remove(t) ==
    /\ threads[t].pc = "remove"
    /\ worker' = [worker EXCEPT !.active_recordings = @ \ {threads[t].rid}]
    /\ threads' = [threads EXCEPT ![t].pc =
                      IF /\ db[threads[t].rid].podcast_id # 0
                         /\ threads[t].status \in {"COMPLETE", "PARTIAL"}
                      THEN "episode" ELSE "recurring"]
    /\ UNCHANGED <<tick, db, episodes, disk, schedQ, startQ, completedQ, coord, web,
                   hist>>

\* create_podcast_episode, lines 324-341: the podcast and the existing episode.
create_podcast_episode(t) ==
    /\ threads[t].pc = "episode"
    /\ LET rid == threads[t].rid
       IN  threads' = [threads EXCEPT ![t].pc =
                          IF db[rid].podcast_id \in PodcastIds /\ episodes[rid] = 0
                          THEN "episode_insert" ELSE "recurring"]
    /\ UNCHANGED <<tick, db, episodes, disk, schedQ, startQ, completedQ, coord,
                   worker, web, hist>>

\* create_podcast_episode, lines 343-369: the episode is added and committed.
create_podcast_episode_insert(t) ==
    /\ threads[t].pc = "episode_insert"
    /\ episodes' = [episodes EXCEPT ![threads[t].rid] = @ + 1]
    /\ threads' = [threads EXCEPT ![t].pc = "recurring"]
    /\ UNCHANGED <<tick, db, disk, schedQ, startQ, completedQ, coord, worker, web,
                   hist>>

\* schedule_next_recurring_if_needed, lines 406-466.  The next occurrence and the
\* new row's end_time need timedelta: without it the NameError is caught at line
\* 465 and nothing is inserted.
schedule_next_recurring_if_needed(t) ==
    /\ threads[t].pc = "recurring"
    /\ LET completed_recording == db[threads[t].rid]
           templates == {j \in Rows : /\ db[j].name = completed_recording.name
                                      /\ db[j].station_id = completed_recording.station_id
                                      /\ db[j].is_recurring}
           recurring_template == db[CHOOSE j \in templates : \A k \in templates : j <= k]
           existing_next ==
               \E k \in Instances(recurring_template.name, recurring_template.station_id) :
                   db[k].start_time > completed_recording.start_time
           next_time == calculate_next_recurrence(completed_recording.start_time,
                                                  recurring_template.recurrence_type)
           inserts == /\ templates # {}
                      /\ ~existing_next
                      /\ WorkerHasTimedelta
                      /\ next_time # -1
                      /\ ~(recurring_template.recurrence_end # 0
                           /\ next_time > recurring_template.recurrence_end)
       IN  IF inserts
           THEN /\ FreeIds # {}
                /\ db' = [db EXCEPT ![NextId] =
                             NewRecording(recurring_template.name,
                                          recurring_template.station_id,
                                          recurring_template.podcast_id, next_time,
                                          recurring_template.duration, FALSE, "", 0)]
           ELSE UNCHANGED db
    /\ threads' = [threads EXCEPT ![t].pc = "cleanup"]
    /\ UNCHANGED <<tick, episodes, disk, schedQ, startQ, completedQ, coord, worker,
                   web, hist>>

\* record_stream, lines 225-227; the thread ends.
record_stream_cleanup(t) ==
    /\ threads[t].pc = "cleanup"
    /\ worker' = [worker EXCEPT !.active_recordings = @ \ {threads[t].rid}]
    /\ threads' = [threads EXCEPT ![t] = FreeThread]
    /\ UNCHANGED <<tick, db, episodes, disk, schedQ, startQ, completedQ, coord, web,
                   hist>>

\* The output files of the captures under way (subprocess.run, line 174).
Capturing_paths == {threads[t].path : t \in {u \in ThreadIds : threads[u].pc = "ffmpeg"}}

\* The worker process dies: its threads and active_recordings go with it, and the
\* broker deletes its exclusive queue.  A capture under way ends with it; ffmpeg
\* may already have written part of its output file.
worker_crash ==
    /\ worker.up
    /\ hist.crashes < MaxWorkerCrashes
    /\ worker' = [NewWorker EXCEPT !.up = FALSE]
    /\ threads' = [t \in ThreadIds |-> FreeThread]
    /\ startQ' = <<>>
    /\ \E written \in BOOLEAN :
          disk' = [p \in DOMAIN disk |->
                      IF written /\ p \in Capturing_paths THEN FileBytes ELSE disk[p]]
    /\ hist' = [hist EXCEPT !.crashes = hist.crashes + 1]
    /\ UNCHANGED <<tick, db, episodes, schedQ, completedQ, coord, web>>

\* RecordingService() is constructed again and subscribes.
worker_start ==
    /\ ~worker.up
    /\ worker' = NewWorker
    /\ UNCHANGED <<tick, db, episodes, disk, schedQ, startQ, completedQ, coord,
                   threads, web, hist>>

\* ------------------------------------------- web: consumer of recording.completed
\* handle_recording_completed, lines 27-53: up to the existing-episode query and
\* the podcast lookup.
handle_recording_completed ==
    /\ web.cpc = "idle"
    /\ completedQ # <<>>
    /\ LET message == Head(completedQ)
           recording_id == message.recording_id
       IN  /\ completedQ' = Tail(completedQ)
           /\ web' = IF /\ message.status = "COMPLETE"
                        /\ Exists(recording_id)
                        /\ db[recording_id].podcast_id # 0
                        /\ episodes[recording_id] = 0
                        /\ db[recording_id].podcast_id \in PodcastIds
                     THEN [web EXCEPT !.cpc = "episode", !.crid = recording_id]
                     ELSE web
    /\ UNCHANGED <<tick, db, episodes, disk, schedQ, startQ, coord, worker, threads,
                   hist>>

\* handle_recording_completed, lines 55-75: the episode is added and committed.
handle_recording_completed_insert ==
    /\ web.cpc = "episode"
    /\ episodes' = [episodes EXCEPT ![web.crid] = @ + 1]
    /\ web' = [web EXCEPT !.cpc = "idle", !.crid = 0]
    /\ UNCHANGED <<tick, db, disk, schedQ, startQ, completedQ, coord, worker,
                   threads, hist>>

\* ------------------------------------------------------------ specification
Reconcile ==
    \/ check_active_recordings
    \/ check_active_recordings_active
    \/ check_active_recordings_interrupted

Poll ==
    \/ check_for_schedule_events
    \/ check_recordings_to_start
    \/ check_recordings_to_start_loop

Start ==
    \/ start_recording
    \/ check_recording_service_ready
    \/ start_recording_not_ready
    \/ start_recording_event
    \/ start_recording_raises
    \/ start_recording_publish

Sweep ==
    \/ check_missing_recurring_instances
    \/ check_missing_recurring_instances_template
    \/ check_missing_recurring_instances_commit

Handlers ==
    \/ handle_recording_start
    \/ handle_recording_start_raises
    \/ handle_recording_start_register

Capture ==
    \/ \E t \in ThreadIds : record_stream(t)
    \/ \E t \in ThreadIds : record_stream_finalize(t)
    \/ \E t \in ThreadIds : record_stream_except(t)
    \/ \E t \in ThreadIds : record_stream_publish(t)
    \/ \E t \in ThreadIds : record_stream_remove(t)
    \/ \E t \in ThreadIds : schedule_next_recurring_if_needed(t)
    \/ \E t \in ThreadIds : record_stream_cleanup(t)

Episodes ==
    \/ \E t \in ThreadIds : create_podcast_episode(t)
    \/ \E t \in ThreadIds : create_podcast_episode_insert(t)
    \/ handle_recording_completed
    \/ handle_recording_completed_insert

\* The lifecycle of one job between the Coordinator, the Capture Worker and the
\* consumer of recording.completed, with restarts of the Coordinator and crashes
\* of the worker.
Next ==
    \/ Tick
    \/ Reconcile
    \/ Poll
    \/ Start
    \/ Sweep
    \/ coordinator_restart
    \/ Handlers
    \/ Capture
    \/ Episodes
    \/ worker_crash
    \/ worker_start

Spec == Init /\ [][Next]_vars

\* One one-off job with no podcast.
JobStores == { <<Job("A", 1, 0)>> }

\* The lifecycle of one one-off job, with restarts of the Coordinator and crashes
\* of the worker.
InitJob == InitWith(JobStores)

NextJob ==
    \/ Tick
    \/ Reconcile
    \/ Poll
    \/ Start
    \/ check_missing_recurring_instances
    \/ check_missing_recurring_instances_commit
    \/ coordinator_restart
    \/ Handlers
    \/ Capture
    \/ worker_crash
    \/ worker_start

SpecJob == InitJob /\ [][NextJob]_vars

\* One job attached to a podcast.
PodcastStores == { <<Job("A", 1, 1)>> }

InitPodcast == InitWith(PodcastStores)

NextPodcast ==
    \/ NextJob
    \/ Episodes

SpecPodcast == InitPodcast /\ [][NextPodcast]_vars

\* One daily recurrence template with no recurrence_end.
SeriesStores == { <<Template("A", 1, 0)>> }

InitSeries == InitWith(SeriesStores)

NextSeries ==
    \/ NextJob
    \/ check_missing_recurring_instances_template

SpecSeries == InitSeries /\ [][NextSeries]_vars

\* A job left RECORDING by a crash of the worker during its capture: no capture
\* runs, the file may have been begun, the recording.schedule message was consumed
\* long ago.  The Coordinator is constructed at an instant inside the window, at
\* its end, or after the lookback; the worker is down or has been restarted.
RecoveryInstants == 1..(MaxTick + 1)

InitRecovery ==
    /\ tick \in RecoveryInstants
    /\ db = Store(<<[Job("A", 1, 0) EXCEPT !.status = "RECORDING"]>>)
    /\ schedQ = <<>>
    /\ episodes = [j \in JobIds |-> 0]
    /\ disk \in {[p \in Paths |-> IF p = "A" THEN size ELSE 0] : size \in {0, FileBytes}}
    /\ startQ = <<>>
    /\ completedQ = <<>>
    /\ coord = NewCoordinator
    /\ worker \in {NewWorker, [NewWorker EXCEPT !.up = FALSE]}
    /\ threads = [t \in ThreadIds |-> FreeThread]
    /\ web = IdleWeb
    /\ hist = [restarts |-> 0, crashes |-> 0]

NextRecovery ==
    \/ Tick
    \/ Reconcile
    \/ check_recordings_to_start
    \/ start_recording
    \/ check_recording_service_ready
    \/ start_recording_not_ready
    \/ start_recording_event
    \/ start_recording_publish
    \/ check_missing_recurring_instances
    \/ check_missing_recurring_instances_commit
    \/ handle_recording_start
    \/ handle_recording_start_register
    \/ Capture
    \/ worker_start

SpecRecovery == InitRecovery /\ [][NextRecovery]_vars

\* A weekly series: its template, whose own occurrence a week before the instance
\* was captured, and the generated instance of window [10,30], with no
\* recurrence_end or with one at the instant of the following occurrence.
WeeklyTemplate(recurrence_end) ==
    [NewRecording("A", 1, 0, 10 - WeekSeconds, 20, TRUE, "weekly", recurrence_end)
        EXCEPT !.status = "COMPLETE", !.file_path = "A", !.file_size = FileBytes]

WeeklyStores ==
    { <<WeeklyTemplate(recurrence_end), Job("A", 1, 0)>> :
          recurrence_end \in {0, 10 + WeekSeconds} }

InitWeekly ==
    /\ tick = 0
    /\ \E rows \in WeeklyStores :
          db = Store(rows) /\ schedQ = <<ScheduleMessage(2, rows[2])>>
    /\ episodes = [j \in JobIds |-> 0]
    /\ disk = [p \in Paths |-> 0]
    /\ startQ = <<>>
    /\ completedQ = <<>>
    /\ coord = NewCoordinator
    /\ worker = NewWorker
    /\ threads = [t \in ThreadIds |-> FreeThread]
    /\ web = IdleWeb
    /\ hist = [restarts |-> 0, crashes |-> 0]

NextWeekly ==
    \/ Tick
    \/ check_active_recordings
    \/ check_active_recordings_active
    \/ Poll
    \/ start_recording
    \/ check_recording_service_ready
    \/ start_recording_event
    \/ start_recording_raises
    \/ start_recording_publish
    \/ Sweep
    \/ Handlers
    \/ Capture

SpecWeekly == InitWeekly /\ [][NextWeekly]_vars

\* A daily series with a recurrence_end: the moment create_recording has committed
\* the template (lines 331-350) and is about to generate its first instance.  The
\* recurrence_end lies just before the first following occurrence or exactly on it.
BoundedEnds == {DaySeconds, 10 + DaySeconds}

InitBounded ==
    /\ tick = 0
    /\ \E recurrence_end \in BoundedEnds :
          db = Store(<<Template("A", 1, recurrence_end)>>)
    /\ schedQ = <<>>
    /\ episodes = [j \in JobIds |-> 0]
    /\ disk = [p \in Paths |-> 0]
    /\ startQ = <<>>
    /\ completedQ = <<>>
    /\ coord = NewCoordinator
    /\ worker = NewWorker
    /\ threads = [t \in ThreadIds |-> FreeThread]
    /\ web = [IdleWeb EXCEPT !.pc = "next_check", !.rid = 1]
    /\ hist = [restarts |-> 0, crashes |-> 0]

NextBounded ==
    \/ NextWeekly
    \/ schedule_next_recurring_instance_check
    \/ schedule_next_recurring_instance_insert
    \/ create_recording_publish

SpecBounded == InitBounded /\ [][NextBounded]_vars

\* One one-off job that the user may delete, while no process fails.
InitCancel == InitWith(JobStores)

NextCancel ==
    \/ Tick
    \/ delete_recording
    \/ check_active_recordings
    \/ check_active_recordings_active
    \/ Poll
    \/ start_recording
    \/ check_recording_service_ready
    \/ start_recording_event
    \/ start_recording_raises
    \/ start_recording_publish
    \/ check_missing_recurring_instances
    \/ check_missing_recurring_instances_commit
    \/ Handlers
    \/ Capture

SpecCancel == InitCancel /\ [][NextCancel]_vars

\* Recurring requests of every type at reference times around month and year
\* ends, in a leap and a common year, and on each day of a week; the moment
\* create_recording has committed the template (lines 331-350).
ReferenceDates ==
    {At(2024, 1, d, 0) : d \in 1..7} \cup
    {At(2024, 1, 31, 0), At(2024, 2, 28, 0), At(2024, 2, 29, 0), At(2024, 3, 31, 0),
     At(2024, 6, 15, 0), At(2024, 12, 31, 0), At(2025, 1, 31, 0), At(2025, 2, 28, 0),
     At(2025, 12, 31, 0), At(2027, 1, 30, 0)}
ReferenceTimes == {d + s : d \in ReferenceDates, s \in {0, 43200, DaySeconds - 1}}

InitCalendar ==
    /\ tick = 0
    /\ \E t \in ReferenceTimes, recurrence_type \in RecurrenceTypes :
          db = Store(<<NewRecording("A", 1, 0, t, 20, TRUE, recurrence_type, 0)>>)
    /\ schedQ = <<>>
    /\ episodes = [j \in JobIds |-> 0]
    /\ disk = [p \in Paths |-> 0]
    /\ startQ = <<>>
    /\ completedQ = <<>>
    /\ coord = NewCoordinator
    /\ worker = NewWorker
    /\ threads = [t \in ThreadIds |-> FreeThread]
    /\ web = [IdleWeb EXCEPT !.pc = "next_check", !.rid = 1]
    /\ hist = [restarts |-> 0, crashes |-> 0]

NextCalendar ==
    \/ schedule_next_recurring_instance_check
    \/ schedule_next_recurring_instance_insert
    \/ create_recording_publish

SpecCalendar == InitCalendar /\ [][NextCalendar]_vars

\* One job that the web application may delete while either process may fail, so
\* that a recording.start message can outlive the RECORDING status or the row.
InitStale == InitWith(JobStores)

NextStale ==
    \/ NextJob
    \/ delete_recording

SpecStale == InitStale /\ [][NextStale]_vars

\* Two jobs on a running Coordinator whose durable queue holds any QueueLen
\* messages: recording.schedule with one of two windows and recording.cancel, for
\* either job id.
QueueLen == 3

QueueWindows == { <<10, 30>>, <<20, 30>> }

QueueMessages ==
    { [key |-> "recording.schedule", recording_id |-> j,
       start_time |-> w[1], end_time |-> w[2]] : j \in 1..2, w \in QueueWindows }
    \cup { [key |-> "recording.cancel", recording_id |-> j] : j \in 1..2 }

InitQueue ==
    /\ tick = 0
    /\ db = Store(<<Job("A", 1, 0), Job("B", 1, 0)>>)
    /\ schedQ \in [1..QueueLen -> QueueMessages]
    /\ episodes = [j \in JobIds |-> 0]
    /\ disk = [p \in Paths |-> 0]
    /\ startQ = <<>>
    /\ completedQ = <<>>
    /\ coord = [NewCoordinator EXCEPT !.pc = "poll_events", !.last_recurring_check = 0]
    /\ worker = NewWorker
    /\ threads = [t \in ThreadIds |-> FreeThread]
    /\ web = IdleWeb
    /\ hist = [restarts |-> 0, crashes |-> 0]

NextQueue ==
    \/ Tick
    \/ Poll
    \/ start_recording
    \/ check_recording_service_ready
    \/ start_recording_event
    \/ start_recording_publish

SpecQueue == InitQueue /\ [][NextQueue]_vars

\* One job whose queue holds any QueueLen schedule and cancel messages for it,
\* while the worker handles the start commands, runs the captures and receives
\* recording.stop messages.
InitAdvisory ==
    /\ tick = 0
    /\ db = Store(<<Job("A", 1, 0)>>)
    /\ schedQ \in [1..QueueLen -> {m \in QueueMessages : m.recording_id = 1}]
    /\ episodes = [j \in JobIds |-> 0]
    /\ disk = [p \in Paths |-> 0]
    /\ startQ = <<>>
    /\ completedQ = <<>>
    /\ coord = [NewCoordinator EXCEPT !.pc = "poll_events", !.last_recurring_check = 0]
    /\ worker = NewWorker
    /\ threads = [t \in ThreadIds |-> FreeThread]
    /\ web = IdleWeb
    /\ hist = [restarts |-> 0, crashes |-> 0]

NextAdvisory ==
    \/ NextQueue
    \/ Handlers
    \/ handle_recording_stop
    \/ Capture

SpecAdvisory == InitAdvisory /\ [][NextAdvisory]_vars

\* Recurrence templates as the sweep of a running Coordinator finds them: of a
\* known or an unknown type, with or without recurrence_end, created now or two
\* days ago, alone, with the next instance already stored, or next to a second
\* template.
SeriesRow(name, start_time, recurrence_type, recurrence_end) ==
    NewRecording(name, 1, 0, start_time, 20, TRUE, recurrence_type, recurrence_end)

SweepTypes == {"daily", "weekly", "hourly"}
SweepStarts == {10, 10 - 2 * DaySeconds}

SweepStores ==
    { <<SeriesRow("A", t, r, IF e = 0 THEN 0 ELSE t + e)>> :
          t \in SweepStarts, r \in SweepTypes, e \in {0, 20, DaySeconds} }
    \cup { <<SeriesRow("A", t, "daily", 0),
             NewRecording("A", 1, 0, t + DaySeconds, 20, FALSE, "", 0)>> :
               t \in SweepStarts }
    \cup { <<SeriesRow("A", 10, r, 0), SeriesRow("B", 10, "daily", 0)>> :
               r \in SweepTypes }

InitSweep ==
    /\ tick = 0
    /\ \E rows \in SweepStores : db = Store(rows)
    /\ schedQ = <<>>
    /\ episodes = [j \in JobIds |-> 0]
    /\ disk = [p \in Paths |-> 0]
    /\ startQ = <<>>
    /\ completedQ = <<>>
    /\ coord = [NewCoordinator EXCEPT !.pc = "poll_events"]
    /\ worker = NewWorker
    /\ threads = [t \in ThreadIds |-> FreeThread]
    /\ web = IdleWeb
    /\ hist = [restarts |-> 0, crashes |-> 0]

NextSweep ==
    \/ Tick
    \/ check_recordings_to_start
    \/ check_recordings_to_start_loop
    \/ start_recording
    \/ check_recording_service_ready
    \/ start_recording_event
    \/ start_recording_publish
    \/ Sweep
    \/ check_missing_recurring_instances_raises

SpecSweep == InitSweep /\ [][NextSweep]_vars

\* One job on a Coordinator that keeps running while the worker may go down and
\* come back and any publish may fail.  run() is a loop of one thread with sleeps
\* of bounded length, so a statement of the Coordinator that can be executed is
\* executed; nothing is assumed of the worker or of the captures.
NextCoordinator ==
    \/ check_active_recordings
    \/ check_active_recordings_active
    \/ Poll
    \/ Start
    \/ check_missing_recurring_instances
    \/ check_missing_recurring_instances_commit

NextRunning ==
    \/ Tick
    \/ NextCoordinator
    \/ Handlers
    \/ Capture
    \/ worker_crash
    \/ worker_start

SpecRunning == InitJob /\ [][NextRunning]_vars /\ WF_vars(NextCoordinator)

\* Two jobs with the same start_time, on a running Coordinator whose clock is
\* driven by its own sleeps.  The recording.schedule message of job 2 was handled
\* before its window (its timers are armed); that of job 1 arrives when the
\* window opens.  The worker is up, or down and not coming back.
InitBusy ==
    /\ tick = 1
    /\ db = Store(<<Job("A", 1, 0), Job("B", 1, 0)>>)
    /\ schedQ = <<ScheduleMessage(1, Job("A", 1, 0))>>
    /\ episodes = [j \in JobIds |-> 0]
    /\ disk = [p \in Paths |-> 0]
    /\ startQ = <<>>
    /\ completedQ = <<>>
    /\ coord = [NewCoordinator EXCEPT !.pc = "poll_events",
                                      !.start_timer[2] = Job("B", 1, 0).start_time,
                                      !.stop_timer[2] = Job("B", 1, 0).end_time,
                                      !.last_recurring_check = 0]
    /\ worker \in {NewWorker, [NewWorker EXCEPT !.up = FALSE]}
    /\ threads = [t \in ThreadIds |-> FreeThread]
    /\ web = IdleWeb
    /\ hist = [restarts |-> 0, crashes |-> 0]

NextBusy ==
    \/ run_sleep
    \/ Poll
    \/ start_recording
    \/ check_recording_service_ready_sleeping
    \/ start_recording_not_ready
    \/ start_recording_event
    \/ start_recording_publish
    \/ handle_recording_start
    \/ handle_recording_start_register
    \/ Capture

SpecBusy == InitBusy /\ [][NextBusy]_vars

\* Two jobs of one name and station while no process fails.
InitOverlap == InitWith(OverlapStores)

NextOverlap ==
    \/ Tick
    \/ check_active_recordings
    \/ check_active_recordings_active
    \/ Poll
    \/ start_recording
    \/ check_recording_service_ready
    \/ start_recording_event
    \/ start_recording_publish
    \/ check_missing_recurring_instances
    \/ check_missing_recurring_instances_commit
    \/ handle_recording_start
    \/ handle_recording_start_register
    \/ Capture

SpecOverlap == InitOverlap /\ [][NextOverlap]_vars

\* Requests to create recordings arriving while the Coordinator polls and sweeps,
\* at an instant before any window opens.
InitRecurrence == InitWith({<<>>})

NextRecurrence ==
    \/ create_recording
    \/ schedule_next_recurring_instance_check
    \/ schedule_next_recurring_instance_insert
    \/ create_recording_publish
    \/ check_active_recordings
    \/ check_for_schedule_events
    \/ check_recordings_to_start
    \/ Sweep
    \/ coordinator_restart

SpecRecurrence == InitRecurrence /\ [][NextRecurrence]_vars

\* ----------------------------------------------------------------- properties
\* The steps in which start_recording, past its commit of RECORDING, returns to
\* its caller (lines 219, 245, 247 and 255).
AfterCommit == {"start_probe", "start_not_ready", "start_event", "start_publish"}
StartReturns ==
    /\ coord.pc \in AfterCommit
    /\ coord'.pc \notin AfterCommit
    /\ hist'.restarts = hist.restarts

\* The step in which event_bus.publish('recording.start', ...) succeeds (line 236).
StartPublished ==
    /\ coord.pc = "start_publish"
    /\ coord'.pub
    /\ hist'.restarts = hist.restarts

\* The step in which thread t passes the publish of recording.completed with the
\* message sent (line 204).
CompletedPublished(t) ==
    /\ threads[t].pc = "publish"
    /\ threads'[t].pc = "remove"
    /\ completedQ' # completedQ

\* The step in which the worker's callback takes a recording.start message.
StartHandled ==
    /\ worker.up
    /\ worker'.up
    /\ worker.pc = "idle"
    /\ startQ # <<>>
    /\ startQ' = Tail(startQ)

\* The message passed the duplicate test and the status test of lines 62-71.
StartAccepted ==
    /\ StartHandled
    /\ Head(startQ).recording_id \notin worker.active_recordings
    /\ Exists(Head(startQ).recording_id)
    /\ db[Head(startQ).recording_id].status = "RECORDING"

\* Thread t is a capture under way: launched and not yet finalized.
Capturing(t) == threads[t].pc \in {"start", "ffmpeg"}

\* C1: terminal states are absorbing: once a job's status is COMPLETE, PARTIAL or
\* FAILED, no step of any component changes its status.
C1_TerminalAbsorbing ==
    [][\A j \in JobIds :
          (Exists(j) /\ db[j].status \in Terminal) => db'[j].status = db[j].status]_vars

\* C2: when start_recording returns after its commit of RECORDING without having
\* published the start command, the job has a terminal status: it is not left
\* in RECORDING.
C2_HalfStartedResolves ==
    [][(StartReturns /\ ~coord'.pub) => db'[coord.rid].status \in Terminal]_vars

\* C3: when the worker accepts a start command and launches no capture, or the
\* launched thread returns for want of remaining time, the job has a terminal
\* status: it is not left in RECORDING.
C3_AcceptedStartResolves ==
    [][/\ (StartAccepted /\ threads' = threads) =>
              db'[Head(startQ).recording_id].status \in Terminal
       /\ \A t \in ThreadIds :
              (threads[t].pc = "start" /\ threads'[t].pc = "free" /\ worker'.up) =>
                  db'[threads[t].rid].status \in Terminal]_vars

\* C4 as stated: the Job Store holds RECORDING for the job at the step its start
\* command is published, and a terminal status at the step its completion event
\* is published.
C4_StoreHoldsRecordingAtPublish ==
    [][/\ StartPublished => db[coord.rid].status = "RECORDING"
       /\ \A t \in ThreadIds :
              CompletedPublished(t) => db[threads[t].rid].status \in Terminal]_vars

\* C4 amended: commit-then-notify.  At the step a start command is published the
\* commit of RECORDING has been made: the Job Store holds RECORDING or a terminal
\* status committed since, never SCHEDULED; at the step a completion event is
\* published the Job Store holds a terminal status, and the event carries it.
C4_CommitThenNotify ==
    [][/\ StartPublished => db[coord.rid].status \in {"RECORDING"} \cup Terminal
       /\ \A t \in ThreadIds :
              CompletedPublished(t) =>
                  /\ db[threads[t].rid].status \in Terminal
                  /\ completedQ'[Len(completedQ')].status = db[threads[t].rid].status]_vars

\* A start command and a completion event have both been published.
C4_Witness ==
    /\ coord.pub
    /\ completedQ # <<>>
    /\ \E t \in ThreadIds : threads[t].pc = "remove" /\ threads[t].status \in Terminal

\* C5: no job id ever has more than one episode, and when the completion handling
\* of a job with a podcast that ended COMPLETE or PARTIAL finishes, it has exactly
\* one.
C5_OneEpisodePerJob ==
    [][/\ \A j \in JobIds : episodes'[j] <= 1
       /\ \A t \in ThreadIds :
              (/\ threads[t].pc = "cleanup"
               /\ threads'[t].pc = "free"
               /\ worker'.up
               /\ threads[t].status \in {"COMPLETE", "PARTIAL"}
               /\ db[threads[t].rid].podcast_id # 0) =>
                  episodes'[threads[t].rid] = 1]_vars

\* C6: a step of a recurrence generator (the creation-time generator of the web
\* application, the sweep's commit, the worker's completion path) never inserts an
\* instance whose (name, station, start_time) another instance already has.
C6_GenerationIdempotent ==
    [][(\/ web.pc = "next_insert" /\ web'.pc = "publish"
        \/ coord.pc = "sweep_commit" /\ coord'.pc = "poll_events"
                                     /\ hist'.restarts = hist.restarts
        \/ \E t \in ThreadIds : threads[t].pc = "recurring" /\ threads'[t].pc = "cleanup")
       => \A j, k \in JobIds :
              (/\ j # k
               /\ ~Exists(j)
               /\ db'[j] # NoRow
               /\ db'[k] # NoRow
               /\ ~db'[j].is_recurring
               /\ ~db'[k].is_recurring)
              => ~(/\ db'[j].name = db'[k].name
                   /\ db'[j].station_id = db'[k].station_id
                   /\ db'[j].start_time = db'[k].start_time)]_vars

\* C7: a worker instance has at most one capture under way per job id, and a
\* start command for a job id in active_recordings launches nothing and changes
\* no state: only the message is consumed and the rejection logged.
C7_OneCapturePerJob ==
    [][/\ \A t, u \in ThreadIds :
              (/\ t # u
               /\ threads'[t].pc \in {"start", "ffmpeg"}
               /\ threads'[u].pc \in {"start", "ffmpeg"})
              => threads'[t].rid # threads'[u].rid
       /\ (StartHandled /\ Head(startQ).recording_id \in worker.active_recordings) =>
              /\ UNCHANGED <<tick, db, episodes, disk, schedQ, completedQ, coord,
                             threads, web, hist>>
              /\ worker' = [worker EXCEPT !.log = "duplicate"]]_vars

\* A start command for a job whose capture is under way has been rejected.
C7_Witness ==
    /\ worker.log = "duplicate"
    /\ \E t \in ThreadIds : Capturing(t) /\ threads[t].rid \in worker.active_recordings

\* C8: no job has was_interrupted = true together with status COMPLETE.
C8_InterruptedNeverComplete ==
    \A j \in JobIds : Exists(j) => ~(db[j].was_interrupted /\ db[j].status = "COMPLETE")

\* C9: at most one non-template job per (name, station) has status RECORDING.
C9_OneRecordingPerNameStation ==
    \A j, k \in JobIds :
        (/\ j # k
         /\ Exists(j)
         /\ Exists(k)
         /\ ~db[j].is_recurring
         /\ ~db[k].is_recurring
         /\ db[j].status = "RECORDING"
         /\ db[k].status = "RECORDING")
        => ~(db[j].name = db[k].name /\ db[j].station_id = db[k].station_id)

CoordinatorSteps == coord' # coord /\ hist'.restarts = hist.restarts

\* C11: the readiness probe makes at most ProbeAttempts attempts; when all of
\* them fail start_recording commits FAILED and returns, and publishes nothing in
\* that call; an attempt that finds the worker ready ends the probe, and
\* start_recording goes on to build and publish the start command.
C11_ProbeExhaustion ==
    [][CoordinatorSteps =>
         /\ (coord.pc = "start_probe" /\ coord'.pc = "start_probe") =>
                (~WorkerReady /\ coord'.att = coord.att + 1 /\ coord'.att < ProbeAttempts)
         /\ (coord.pc = "start_probe" /\ coord'.pc = "start_not_ready") =>
                (~WorkerReady /\ coord.att = ProbeAttempts - 1)
         /\ (coord.pc = "start_probe" /\ WorkerReady) => coord'.pc = "start_event"
         /\ coord.pc = "start_probe" => coord'.pc \in {"start_probe", "start_not_ready",
                                                       "start_event"}
         /\ coord.pc \in {"start_probe", "start_not_ready"} =>
                (startQ' = startQ /\ ~coord'.pub)
         /\ coord.pc = "start_not_ready" =>
                /\ db'[coord.rid].status = "FAILED"
                /\ coord'.pc \notin AfterCommit
                /\ coord'.log = "not_ready"]_vars

\* start_recording has returned after ten failed probes: FAILED is stored and
\* nothing was published.
C11_Witness ==
    /\ coord.log = "not_ready"
    /\ coord.pc \notin AfterCommit
    /\ ~coord.pub
    /\ startQ = <<>>
    /\ db[1].status = "FAILED"

\* C12 as stated: the start command is attempted at most PublishAttempts times;
\* when all fail FAILED is stored and nothing was published; a successful
\* attempt ends the loop with one command published and the stored status
\* RECORDING.
C12_PublishKeepsRecording ==
    [][CoordinatorSteps =>
         /\ (coord.pc = "start_publish" /\ coord'.pc = "start_publish") =>
                (coord'.att = coord.att + 1 /\ coord'.att < PublishAttempts
                 /\ startQ' = startQ /\ db' = db)
         /\ (coord.pc = "start_publish" /\ coord'.pc # "start_publish" /\ ~coord'.pub) =>
                /\ coord.att = PublishAttempts - 1
                /\ db'[coord.rid].status = "FAILED"
                /\ startQ' = startQ
         /\ StartPublished =>
                /\ coord'.pc \notin AfterCommit
                /\ db'[coord.rid].status = "RECORDING"]_vars

\* C12 amended: as stated, except that a successful attempt leaves the stored
\* status as it is: RECORDING, or the terminal status another component
\* committed since this call's commit of RECORDING.  The one command published is
\* routed to the worker's queue when the worker is connected.
C12_PublishRetries ==
    [][CoordinatorSteps =>
         /\ (coord.pc = "start_publish" /\ coord'.pc = "start_publish") =>
                (coord'.att = coord.att + 1 /\ coord'.att < PublishAttempts
                 /\ startQ' = startQ /\ db' = db)
         /\ (coord.pc = "start_publish" /\ coord'.pc # "start_publish" /\ ~coord'.pub) =>
                /\ coord.att = PublishAttempts - 1
                /\ db'[coord.rid].status = "FAILED"
                /\ startQ' = startQ
                /\ coord'.log = "publish_failed"
         /\ StartPublished =>
                /\ coord'.pc \notin AfterCommit
                /\ db' = db
                /\ db[coord.rid].status \in {"RECORDING"} \cup Terminal
                /\ worker.up =>
                       /\ Len(startQ') = Len(startQ) + 1
                       /\ startQ'[Len(startQ')].recording_id = coord.rid
                /\ ~worker.up => startQ' = startQ]_vars

\* Both outcomes of the loop have been seen: here, three failed attempts.
C12_Witness ==
    /\ coord.log = "publish_failed"
    /\ coord.pc \notin AfterCommit
    /\ db[1].status = "FAILED"
    /\ \A t \in ThreadIds : threads[t].pc = "free"

\* The step in which thread t commits the outcome of its capture (line 200).
Finalized(t) == threads[t].pc = "ffmpeg" /\ threads'[t].pc = "publish"

\* C13: the status record_stream commits is decided by the exit code, the
\* presence of the output file and the was_interrupted it reads: exit 0 with the
\* file gives COMPLETE when was_interrupted is false and PARTIAL when it is true,
\* anything else FAILED; file_path and file_size are written only when the status
\* is not FAILED.
C13_OutcomeFunction ==
    [][\A t \in ThreadIds :
          Finalized(t) =>
             LET rid == threads[t].rid
                 success == threads'[t].returncode = 0 /\ disk'[threads[t].path] > 0
             IN  /\ (success /\ ~threads[t].was_interrupted) =>
                        db'[rid].status = "COMPLETE"
                 /\ (success /\ threads[t].was_interrupted) =>
                        db'[rid].status = "PARTIAL"
                 /\ ~success => /\ db'[rid].status = "FAILED"
                                /\ db'[rid].file_path = db[rid].file_path
                                /\ db'[rid].file_size = db[rid].file_size
                 /\ success => /\ db'[rid].file_path = threads[t].path
                               /\ db'[rid].file_size = disk'[threads[t].path]]_vars

\* A capture that read was_interrupted = true has ended with exit code 0 and its
\* file, and PARTIAL is stored.
C13_Witness ==
    \E t \in ThreadIds :
        /\ threads[t].pc = "publish"
        /\ threads[t].returncode = 0
        /\ threads[t].was_interrupted
        /\ disk[threads[t].path] > 0
        /\ db[threads[t].rid].status = "PARTIAL"

\* C14: when the job.completed publish of thread t fails, that step leaves the
\* committed row as it is, and the thread goes on: the job leaves
\* active_recordings, the episode is created when the job has a podcast and a
\* COMPLETE or PARTIAL status, and the next-instance step runs before the thread
\* ends.
C14_CompletionSurvivesPublishFailure ==
    [][\A t \in ThreadIds :
          LET rid == threads[t].rid
              failed == ~threads'[t].published
              goes_on == threads'[t].rid = rid /\ ~threads'[t].published
          IN  /\ (threads[t].pc = "publish" /\ threads'[t].pc # "publish" /\ worker'.up) =>
                    /\ threads'[t].pc = "remove"
                    /\ failed => (db' = db /\ completedQ' = completedQ)
              /\ (threads[t].pc = "remove" /\ ~threads[t].published
                  /\ threads'[t] # threads[t] /\ worker'.up) =>
                    /\ goes_on
                    /\ rid \notin worker'.active_recordings
                    /\ threads'[t].pc =
                          IF db[rid].podcast_id # 0
                             /\ threads[t].status \in {"COMPLETE", "PARTIAL"}
                          THEN "episode" ELSE "recurring"
              /\ (threads[t].pc = "episode" /\ ~threads[t].published
                  /\ threads'[t] # threads[t] /\ worker'.up) =>
                    /\ goes_on
                    /\ threads'[t].pc =
                          IF db[rid].podcast_id \in PodcastIds /\ episodes[rid] = 0
                          THEN "episode_insert" ELSE "recurring"
              /\ (threads[t].pc = "episode_insert" /\ ~threads[t].published
                  /\ threads'[t] # threads[t] /\ worker'.up) =>
                    /\ goes_on
                    /\ episodes'[rid] = episodes[rid] + 1
                    /\ threads'[t].pc = "recurring"
              /\ (threads[t].pc = "recurring" /\ ~threads[t].published
                  /\ threads'[t] # threads[t] /\ worker'.up) =>
                    /\ goes_on
                    /\ threads'[t].pc = "cleanup"]_vars

\* A capture whose job.completed publish failed has stored COMPLETE, is out of
\* active_recordings, and has created its episode and passed the next-instance
\* step.
C14_Witness ==
    \E t \in ThreadIds :
        /\ threads[t].pc = "cleanup"
        /\ ~threads[t].published
        /\ completedQ = <<>>
        /\ db[threads[t].rid].status = "COMPLETE"
        /\ threads[t].rid \notin worker.active_recordings
        /\ episodes[threads[t].rid] = 1

\* The step of check_active_recordings' second loop (lines 123-134) on row j with
\* no capture of j running.
Abandoned(j) ==
    /\ coord.pc = "rec_interrupted"
    /\ coord'.pc # "rec_interrupted" \/ Len(coord'.intr) < Len(coord.intr)
    /\ hist'.restarts = hist.restarts
    /\ Head(coord.intr).id = j
    /\ \A t \in ThreadIds : threads[t].rid # j

\* C15: when reconciliation handles an abandoned RECORDING job whose window has
\* ended within the lookback and whose capture left an output file, it stores
\* PARTIAL with was_interrupted = true and the file's size.
C15_AbandonedWithFileIsPartial ==
    [][\A j \in JobIds :
          (Abandoned(j) /\ disk[db[j].name] > 0) =>
              /\ db'[j].status = "PARTIAL"
              /\ db'[j].was_interrupted
              /\ db'[j].file_size = disk[db[j].name]]_vars

\* C16: when reconciliation handles an abandoned RECORDING job whose window has
\* ended within the lookback and whose capture left no output file, it stores
\* FAILED with was_interrupted = true.
C16_AbandonedWithoutFileIsFailed ==
    [][\A j \in JobIds :
          (Abandoned(j) /\ disk[db[j].name] = 0) =>
              /\ db'[j].status = "FAILED"
              /\ db'[j].was_interrupted]_vars

\* The worker crashed during the capture and left no file; the restarted
\* Coordinator's reconciliation has stored FAILED and was_interrupted.
C16_Witness ==
    /\ hist.crashes = 1 /\ hist.restarts = 1
    /\ coord.pc = "poll_events" /\ coord.log = ""
    /\ disk["A"] = 0
    /\ db[1].status = "FAILED" /\ db[1].was_interrupted
    /\ db[1].end_time <= now

\* C17: at Coordinator startup the rows reconciliation restarts are exactly those
\* with start_time <= now < end_time and status SCHEDULED or RECORDING; each of
\* them is handed to start_recording, in turn and without any being dropped; for
\* a row found RECORDING was_interrupted = true is committed in the step before
\* start_recording is entered, with nothing published yet; and a capture launched
\* by such a re-issued start never commits COMPLETE.
C17_ReconcileReissuesStart ==
    [][/\ (coord.pc = "reconcile" /\ CoordinatorSteps) =>
             {r.id : r \in {coord'.todo[i] : i \in 1..Len(coord'.todo)}} =
                 {j \in Rows : /\ db[j].start_time <= now
                               /\ now < db[j].end_time
                               /\ db[j].status \in {"SCHEDULED", "RECORDING"}}
       /\ (coord.pc = "rec_active" /\ CoordinatorSteps) =>
             LET r == Head(coord.todo)
             IN  /\ coord'.pc = "start_read"
                 /\ coord'.rid = r.id
                 /\ coord'.todo = Tail(coord.todo)
                 /\ startQ' = startQ
                 /\ Seen(r).status = "RECORDING" => db'[r.id].was_interrupted
       /\ (coord.ret = "reconcile" /\ coord.pc # "rec_active" /\ CoordinatorSteps) =>
             coord'.todo = coord.todo
       /\ \A t \in ThreadIds :
             (Finalized(t) /\ threads[t].resumed) => db'[threads[t].rid].status # "COMPLETE"]_vars

\* A capture launched by the start that reconciliation re-issued for a RECORDING
\* row has ended with exit code 0 and its file, and PARTIAL is stored.
C17_Witness ==
    \E t \in ThreadIds :
        /\ threads[t].resumed
        /\ threads[t].pc = "publish"
        /\ threads[t].returncode = 0
        /\ disk[threads[t].path] > 0
        /\ db[threads[t].rid].status = "PARTIAL"
        /\ db[threads[t].rid].was_interrupted

\* Reconciliation is under way.
Reconciling == coord.pc \in {"reconcile", "rec_active", "rec_interrupted"} \/ coord.ret = "reconcile"

\* No capture of job j runs and no recording.start for it waits or is being handled.
NoCapture(j) ==
    /\ \A t \in ThreadIds : threads[t].rid # j
    /\ \A i \in 1..Len(startQ) : startQ[i].recording_id # j
    /\ worker.rid # j

\* C18: once the Coordinator's startup reconciliation has finished, a job whose
\* end_time has passed and for which no capture runs is not RECORDING.
C18_RecoveryComplete ==
    ~Reconciling =>
        \A j \in Rows : (db[j].end_time <= now /\ NoCapture(j)) => db[j].status # "RECORDING"

\* C19: when the Coordinator handles a recording.schedule message, it enters
\* start_recording for the job at once, arming no timer, if
\* start_time <= now < end_time; otherwise (now = end_time included) it does not
\* enter start_recording, and it arms the start timer at start_time and the stop
\* timer at end_time, each only if that time is still in the future.
C19_ScheduleStartsInsideWindow ==
    [][(coord.pc = "poll_events" /\ schedQ # <<>> /\ schedQ' = Tail(schedQ)
        /\ CoordinatorSteps) =>
          LET message == Head(schedQ)
              j == message.recording_id
          IN  IF message.start_time <= now /\ now < message.end_time
              THEN /\ coord'.pc = "start_read" /\ coord'.rid = j
                   /\ coord'.start_timer = coord.start_timer
                   /\ coord'.stop_timer = coord.stop_timer
              ELSE /\ coord'.pc # "start_read"
                   /\ coord'.start_timer[j] =
                         IF message.start_time > now THEN message.start_time
                         ELSE coord.start_timer[j]
                   /\ coord'.stop_timer[j] =
                         IF message.end_time > now THEN message.end_time
                         ELSE coord.stop_timer[j]]_vars

\* The weekly templates of the series of job j.
WeeklyTemplates(j) ==
    {k \in Rows : /\ db[k].name = db[j].name
                  /\ db[k].station_id = db[j].station_id
                  /\ db[k].is_recurring
                  /\ db[k].recurrence_type = "weekly"}

\* C20: when the capture of a generated instance of a weekly template has ended
\* COMPLETE and the completion path runs its next-instance step, with no later
\* instance stored and start_time + 7 days not after recurrence_end, that step
\* adds exactly one row, with start_time = start_time + 7 days and is_recurring
\* = false.
C20_WeeklyNextInstance ==
    [][\A t \in ThreadIds :
          LET j == threads[t].rid
              next_time == db[j].start_time + WeekSeconds
          IN  (/\ threads[t].pc = "recurring" /\ threads'[t].pc = "cleanup"
               /\ threads[t].status = "COMPLETE"
               /\ ~db[j].is_recurring
               /\ WeeklyTemplates(j) # {}
               /\ \A k \in WeeklyTemplates(j) :
                      db[k].recurrence_end = 0 \/ next_time <= db[k].recurrence_end
               /\ \A k \in Instances(db[j].name, db[j].station_id) :
                      db[k].start_time <= db[j].start_time) =>
                 \E k \in JobIds :
                     /\ db[k] = NoRow
                     /\ db'[k] # NoRow
                     /\ db'[k].start_time = next_time
                     /\ ~db'[k].is_recurring
                     /\ \A i \in JobIds \ {k} : db'[i] = db[i]]_vars

\* C21: no instance of a series whose template has a recurrence_end starts later
\* than that recurrence_end, whether the web application, the sweep or the
\* completion path added it.
C21_InstancesWithinRecurrenceEnd ==
    \A k \in Rows :
        (db[k].is_recurring /\ db[k].recurrence_end # 0) =>
            \A j \in Instances(db[k].name, db[k].station_id) :
                db[j].start_time <= db[k].recurrence_end

\* The instance starting exactly at recurrence_end exists, and a sweep that found
\* the following occurrence inside its horizon has added nothing for it.
C21_Witness ==
    /\ \E k \in Rows, j \in Rows :
          /\ db[k].is_recurring /\ ~db[j].is_recurring
          /\ db[j].start_time = db[k].recurrence_end
          /\ calculate_next_recurrence(db[j].start_time, db[k].recurrence_type)
                 <= now + HorizonSeconds
    /\ coord.pc = "sweep_commit"
    /\ coord.pend = <<>>

\* The step in which the Coordinator takes a recording.cancel message.
Cancelling ==
    /\ coord.pc = "poll_events"
    /\ schedQ # <<>>
    /\ Head(schedQ).key = "recording.cancel"
    /\ schedQ' = Tail(schedQ)
    /\ CoordinatorSteps

\* C22: once the Coordinator has handled a recording.cancel message, neither the
\* start timer nor the stop timer of that job id is armed; the timers of other
\* ids and the Job Store are untouched, and with no timer armed for the id the
\* handling changes nothing but the Coordinator's position.  (When the cancel
\* arrives the two timers of an id are armed together or not at all: the schedule
\* handler arms both or none, and no timer ever fires.)
C22_CancelDisarmsTimers ==
    [][Cancelling =>
          LET j == Head(schedQ).recording_id
          IN  /\ (coord.start_timer[j] = -1) <=> (coord.stop_timer[j] = -1)
              /\ coord'.start_timer[j] = -1
              /\ coord'.stop_timer[j] = -1
              /\ \A i \in JobIds \ {j} : /\ coord'.start_timer[i] = coord.start_timer[i]
                                         /\ coord'.stop_timer[i] = coord.stop_timer[i]
              /\ db' = db
              /\ (coord.start_timer[j] = -1 /\ coord.stop_timer[j] = -1) =>
                    coord' = [coord EXCEPT !.pc = "poll_due"]]_vars

\* The timers armed for the job were removed by the cancel.
C22_Witness ==
    /\ coord.log = "cancelled"
    /\ coord.start_timer[1] = -1
    /\ coord.stop_timer[1] = -1
    /\ ~Exists(1)

\* C23: every change of a stored status follows the transition relation:
\* RECORDING is written over SCHEDULED or RECORDING, a terminal status over
\* RECORDING only, CANCELLED over SCHEDULED only.
C23_StatusWritesFollowTransitions ==
    [][\A j \in JobIds :
          (Exists(j) /\ db'[j] # NoRow /\ db'[j].status # db[j].status) =>
             \/ db'[j].status = "RECORDING" /\ db[j].status \in {"SCHEDULED", "RECORDING"}
             \/ db'[j].status \in Terminal /\ db[j].status = "RECORDING"
             \/ db'[j].status = "CANCELLED" /\ db[j].status = "SCHEDULED"]_vars

\* The web application has computed next_time for the template of the given type.
Computed(recurrence_type) ==
    /\ web.pc = "next_insert"
    /\ db[web.rid].recurrence_type = recurrence_type

\* The calendar day after the day of t, as <<year, month, day>>.
DayAfter(t) ==
    IF DayOf(t) < DaysInMonth(YearOf(t), MonthOf(t))
    THEN <<YearOf(t), MonthOf(t), DayOf(t) + 1>>
    ELSE IF MonthOf(t) < 12 THEN <<YearOf(t), MonthOf(t) + 1, 1>>
    ELSE <<YearOf(t) + 1, 1, 1>>

\* C24: the next occurrence of a daily series is the reference time plus one
\* day, on the following calendar day, and that of a weekly series the reference
\* time plus seven days, on the same weekday; the time of day is unchanged.
C24_DailyAndWeeklyAreExact ==
    LET t == db[web.rid].start_time
        n == web.next_time
    IN  /\ Computed("daily") =>
              /\ n = t + DaySeconds
              /\ <<YearOf(n), MonthOf(n), DayOf(n)>> = DayAfter(t)
              /\ TimeOfDay(n) = TimeOfDay(t)
        /\ Computed("weekly") =>
              /\ n = t + 7 * DaySeconds
              /\ Weekday(n) = Weekday(t)
              /\ TimeOfDay(n) = TimeOfDay(t)

\* The occurrence after 2024-12-31 23:59:59 of a weekly series is computed and
\* lies in January 2025.
C24_Witness ==
    /\ Computed("weekly")
    /\ db[web.rid].start_time = At(2024, 12, 31, DaySeconds - 1)
    /\ YearOf(web.next_time) = 2025 /\ MonthOf(web.next_time) = 1
    /\ DayOf(web.next_time) = 7

\* next is t + k days for the least k >= 1 that lands in the set of weekdays.
EarliestIn(t, next, target) ==
    \E k \in 1..6 :
        /\ next = t + k * DaySeconds
        /\ Weekday(next) \in target
        /\ \A i \in 1..(k - 1) : Weekday(t + i * DaySeconds) \notin target

\* C25: the next occurrence of a weekdays series is the earliest t + k days,
\* 1 <= k <= 6, that is a Monday to Friday, and that of a weekends series the
\* earliest that is a Saturday or Sunday.
C25_WeekdaysAndWeekends ==
    /\ Computed("weekdays") => EarliestIn(db[web.rid].start_time, web.next_time, 0..4)
    /\ Computed("weekends") => EarliestIn(db[web.rid].start_time, web.next_time, {5, 6})

\* From a Sunday the next weekend day is the Saturday six days later.
C25_Witness ==
    /\ Computed("weekends")
    /\ Weekday(db[web.rid].start_time) = 6
    /\ web.next_time = db[web.rid].start_time + 6 * DaySeconds
    /\ Weekday(web.next_time) = 5

\* C26: the next occurrence of a monthly series lies in the following calendar
\* month, on the same day of the month clipped to that month's length and at the
\* same time of day; twelve successive occurrences from any reference time end in
\* the same calendar month of the following year.
C26_MonthlyClipsAndReturns ==
    LET t == db[web.rid].start_time
        n == web.next_time
        y == IF MonthOf(t) = 12 THEN YearOf(t) + 1 ELSE YearOf(t)
        m == IF MonthOf(t) = 12 THEN 1 ELSE MonthOf(t) + 1
        later == Successive(12, t, "monthly")
    IN  Computed("monthly") =>
            /\ YearOf(n) = y /\ MonthOf(n) = m
            /\ DayOf(n) = IF DayOf(t) > DaysInMonth(y, m) THEN DaysInMonth(y, m)
                          ELSE DayOf(t)
            /\ TimeOfDay(n) = TimeOfDay(t)
            /\ YearOf(later) = YearOf(t) + 1 /\ MonthOf(later) = MonthOf(t)

\* The occurrence after 31 January 2024 is 29 February 2024.
C26_Witness ==
    /\ Computed("monthly")
    /\ db[web.rid].start_time = At(2024, 1, 31, 43200)
    /\ web.next_time = At(2024, 2, 29, 43200)

\* C27: a message its consumer had received but not finished handling when the
\* consumer process died is not lost: the recording.schedule message the
\* Coordinator was handling is in scheduler_queue again after the restart, and
\* the recording.start command the worker was handling is in its queue again.
C27_UnfinishedMessageRedelivered ==
    [][/\ (hist'.restarts = hist.restarts + 1 /\ coord.ret = "schedule") =>
             \E i \in 1..Len(schedQ') : schedQ'[i].recording_id = coord.rid
       /\ (hist'.crashes = hist.crashes + 1 /\ worker.pc # "idle") =>
             \E i \in 1..Len(startQ') : startQ'[i].recording_id = worker.rid]_vars

\* C28: while the Coordinator runs, a job is not SCHEDULED any more once the
\* grace window after its start_time has passed: start_recording was entered
\* for it by then, whatever else the poll loop was doing.
C28_DueJobsStartWithinGrace ==
    \A j \in Rows :
        db[j].status = "SCHEDULED" => now <= db[j].start_time + GraceSeconds

\* C29: start_recording re-reads the job and goes on to the probe only for an
\* existing row that is SCHEDULED or RECORDING.  For a missing row or a row in
\* COMPLETE, PARTIAL, FAILED or CANCELLED it returns at once: the Job Store and
\* the start queue are unchanged and the Coordinator is not in the probe or the
\* publish loop.
C29_StartActsOnlyOnSchedulable ==
    [][(coord.pc = "start_read" /\ coord'.pc # "start_read") /\ ~(/\ Exists(coord.rid)
                       /\ db[coord.rid].status \in {"SCHEDULED", "RECORDING"}) =>
          /\ db' = db
          /\ startQ' = startQ
          /\ coord'.pc \notin {"start_probe", "start_not_ready", "start_event",
                               "start_publish"}
          /\ coord'.log = "not_schedulable"]_vars

\* start_recording has returned for a job whose row was deleted.
C29_Witness ==
    /\ coord.log = "not_schedulable"
    /\ \A j \in JobIds : ~Exists(j)

\* C30: the worker launches a capture for a start command only if the Job Store
\* holds RECORDING for that id when the command is handled.  For a missing row or
\* any other status no thread is launched, active_recordings gets no entry, no
\* registration is pending and the Job Store is unchanged.
C30_WorkerStartsOnlyRecording ==
    [][(/\ StartHandled
        /\ ~(/\ Exists(Head(startQ).recording_id)
             /\ db[Head(startQ).recording_id].status = "RECORDING")) =>
          /\ threads' = threads
          /\ worker'.active_recordings = worker.active_recordings
          /\ worker'.pc = "idle"
          /\ db' = db]_vars

\* A start command was ignored because of the Job Store, and the row is gone.
C30_Witness ==
    /\ worker.log = "not_recording"
    /\ \A j \in JobIds : ~Exists(j)

C32_StopAndCancelAreAdvisory ==
    [][/\ (worker'.log = "stop_signal" /\ worker.log # "stop_signal") =>
              /\ db' = db
              /\ worker'.active_recordings = worker.active_recordings
              /\ threads' = threads
       /\ Cancelling =>
              /\ db' = db
              /\ worker' = worker
              /\ threads' = threads
       /\ \A t \in ThreadIds :
              /\ (Capturing(t) /\ threads'[t].pc \in {"start", "ffmpeg"}) =>
                     threads'[t].end_time = threads[t].end_time
              /\ (threads[t].pc = "ffmpeg" /\ threads'[t].pc = "publish"
                  /\ threads'[t].returncode = 0) => now >= threads[t].end_time]_vars

\* A capture is under way after the timers of its job were cancelled and a stop
\* message for it was logged.
C32_Witness ==
    /\ worker.log = "stop_signal"
    /\ coord.log = "cancelled"
    /\ \E t \in ThreadIds :
          /\ threads[t].pc = "ffmpeg"
          /\ threads[t].rid \in worker.active_recordings
          /\ coord.start_timer[threads[t].rid] = -1
          /\ db[threads[t].rid].status = "RECORDING"

\* The step in which the sweep has dealt with one template.
Sweeping ==
    /\ coord.pc = "sweep_loop"
    /\ coord'.pc \in {"sweep_loop", "sweep_commit"}
    /\ coord'.todo = Tail(coord.todo)

\* The start_time of the latest stored instance of the template's series, or the
\* template's when it has none.
LatestOf(template) ==
    LET starts == {db[k].start_time : k \in Instances(template.name, template.station_id)}
    IN  IF starts = {} THEN template.start_time
        ELSE CHOOSE t \in starts : \A u \in starts : u <= t

C34_SweepFailureIsolation ==
    [][/\ (Sweeping /\ calculate_next_recurrence(LatestOf(Head(coord.todo).row),
                           Head(coord.todo).row.recurrence_type) = -1) =>
              coord'.pend = coord.pend
       /\ (/\ coord.pc = "sweep_loop"
           /\ coord'.pc \notin {"sweep_loop", "sweep_commit"}
           /\ CoordinatorSteps) =>
              /\ coord'.pend = coord.pend
              /\ coord'.todo = Tail(coord.todo)]_vars

\* The Coordinator is inside a call of start_recording.
Starting ==
    coord.pc \in {"start_read", "start_probe", "start_not_ready", "start_event",
                  "start_publish"}

\* C35: a call of start_recording makes at most ProbeAttempts probe attempts and
\* at most PublishAttempts publish attempts and then returns, whatever the worker
\* and the broker do, and the poll loop comes back to the top of its iteration
\* again and again, whether or not a capture is under way.
C35_StartAndPollTerminate ==
    /\ [][/\ coord'.pc = "start_probe" => coord'.att < ProbeAttempts
          /\ coord'.pc = "start_publish" => coord'.att < PublishAttempts]_vars
    /\ Starting ~> ~Starting
    /\ []<>(coord.pc = "poll_events")

\* The Coordinator is back at the top of its loop, after a probe that found the
\* worker down ten times, while the worker is still down.
C35_Witness ==
    /\ coord.pc = "poll_events"
    /\ coord.log = "not_ready"
    /\ ~worker.up
    /\ tick = MaxTick

\* The recording.schedule message of job j for window w, and its cancel message.
ScheduleOf(j, w) ==
    [key |-> "recording.schedule", recording_id |-> j,
     start_time |-> w[1], end_time |-> w[2]]

CancelOf(j) == [key |-> "recording.cancel", recording_id |-> j]

\* C36: the Coordinator takes the messages of its queue from the head, one per
\* iteration of the poll loop, so they are handled in the order they were
\* published.  When a schedule message for a job is followed by its cancel, no
\* timer of the job is armed once both are handled; when the cancel is followed
\* by a schedule message for a window that has not begun, both timers carry the
\* times of that message once both are handled.
C36_HandledInPublishOrder ==
    /\ [][schedQ' # schedQ =>
             /\ schedQ' = Tail(schedQ)
             /\ coord.pc = "poll_events"
             /\ coord'.pc # "poll_events"]_vars
    /\ \A n \in 2..QueueLen : \A j \in 1..2 : \A w \in QueueWindows :
          /\ []((/\ Len(schedQ) = n
                 /\ schedQ[1] = ScheduleOf(j, w)
                 /\ schedQ[2] = CancelOf(j))
                => [](Len(schedQ) = n - 2 =>
                         /\ coord.start_timer[j] = -1
                         /\ coord.stop_timer[j] = -1))
          /\ []((/\ Len(schedQ) = n
                 /\ schedQ[1] = CancelOf(j)
                 /\ schedQ[2] = ScheduleOf(j, w))
                => []((Len(schedQ) = n - 2 /\ w[1] > now) =>
                         /\ coord.start_timer[j] = w[1]
                         /\ coord.stop_timer[j] = w[2]))

\* The queue is drained after timers were armed, cancelled and armed again.
C36_Witness ==
    /\ schedQ = <<>>
    /\ coord.log = "cancelled"
    /\ \E j \in 1..2 : coord.start_timer[j] = 10 /\ coord.stop_timer[j] = 30

\* C37: no step of the Coordinator or of the Capture Worker removes a stored row
\* or changes its start_time, end_time or duration; a completed capture keeps the
\* planned duration.
C37_PlanIsNeverRewritten ==
    [][\A j \in JobIds :
          db[j] # NoRow =>
              /\ db'[j] # NoRow
              /\ db'[j].start_time = db[j].start_time
              /\ db'[j].end_time = db[j].end_time
              /\ db'[j].duration = db[j].duration]_vars

\* A capture that began late, after a restart of the Coordinator, is stored as
\* PARTIAL with the planned window, next to an instance the sweep has added.
C37_Witness ==
    /\ hist.restarts > 0
    /\ db[1].status = "PARTIAL"
    /\ db[1].start_time = 10
    /\ db[1].end_time = 30
    /\ db[1].duration = 20
    /\ \E j \in Rows : ~db[j].is_recurring

\* C38: every instance a recurrence generator stores has its start_time later
\* than the moment it is stored, so that the poll loop finds it due when that
\* time comes; the sweep of a Coordinator that was down for more than one period
\* stores no instance whose start_time is already past.
C38_InstancesInsertedInFuture ==
    [][\A j \in JobIds :
          (db[j] = NoRow /\ db'[j] # NoRow) => db'[j].start_time > now]_vars

\* C39: active_recordings holds a job id only while a capture thread of that job
\* is alive, and every live capture thread whose launch has been registered has
\* its id in it: the entry is removed on every way the thread ends.
C39_ActiveTableMatchesCaptures ==
    /\ \A j \in worker.active_recordings :
          \E t \in ThreadIds : threads[t].pc # "free" /\ threads[t].rid = j
    /\ \A t \in ThreadIds :
          (Capturing(t) /\ worker.rid # threads[t].rid) =>
              threads[t].rid \in worker.active_recordings

====
